---- MODULE Spec2Model ----
(***************************************************************************)
(* One SECOP blockchain node: the chain of hash-linked blocks, the         *)
(* contract registry with its six-step approval workflow, and the peer     *)
(* registry with the pull synchronisation.                                 *)
(*                                                                         *)
(* Go slices are 0-based, TLA+ sequences are 1-based: Go's Chain[i] is     *)
(* chain[i+1] here, and Go's len(Chain) is Len(chain).                     *)
(*                                                                         *)
(* SHA-256 over the canonical JSON encoding is modelled as an injective    *)
(* function of the values that are encoded: the hash of a block is the     *)
(* record of the six hashed fields, with the timestamp reduced to whole    *)
(* seconds as Timestamp.Unix() does.  The empty string hash is NoHash.     *)
(***************************************************************************)
EXTENDS Integers, Sequences, FiniteSets, TLC

VARIABLES chain, contracts, peers, last, tasks

vars == <<chain, contracts, peers, last, tasks>>

(***************************************************************************)
(* Bounds of the model.                                                    *)
(***************************************************************************)
\* longest local chain of Spec
MaxChain == 3
\* longest local chain of SpecPath, and the most blocks in it that are
\* neither the first contract creation nor an approving step validation
MaxPathChain == 9
MaxPathDetours == 1
\* longest chain the node builds itself in SpecSync
MaxSyncChain == 2
\* longest chain a peer answers with
MaxPeerChain == 4

\* SpecRace: the longest local chain
MaxRaceChain == 4

\* SpecCreate: the longest chain
MaxCreateChain == 3

\* SpecAdopt: the longest chain a peer answers with
MaxAdoptChain == 3

\* SpecTwo: the longest chain a node starts from
MaxTwoChain == 3

\* SpecHandlers: the longest chain
MaxHandlerChain == 4

(***************************************************************************)
(* Input domains.                                                          *)
(***************************************************************************)
ContractIds == {"c1", "c2"}
PeerIds == {"p1", "p2"}
\* an empty string and one non-empty string for each text field
Texts == {"", "x"}
Amounts == {0, 100}
ValidatorIds == {"v1"}
ValidatorNames == {"n1"}
CommentTexts == {"ok"}
NodeIds == {"n1"}
\* readings of time.Now(), in half seconds; 0 is the zero time.Time
Clock == {2}
PeerTimes == {0, 3}
StepNumbers == 1..7
Booleans == {TRUE, FALSE}

(***************************************************************************)
(* Roles and statuses.                                                     *)
(***************************************************************************)
RoleProjectDeveloper == "ProjectDeveloper"
RoleTechnicalCommission == "TechnicalCommission"
RoleLegalCommission == "LegalCommission"
RoleContractsChief == "ContractsChief"
RoleAdminChief == "AdminChief"
RoleBudgetAuthority == "BudgetAuthority"
RoleComptroller == "Comptroller"
RoleProsecutor == "Prosecutor"
RoleCitizen == "Citizen"

ApprovalRoles ==
  {RoleProjectDeveloper, RoleTechnicalCommission, RoleLegalCommission,
   RoleContractsChief, RoleAdminChief, RoleBudgetAuthority}

AuditRoles == {RoleComptroller, RoleProsecutor, RoleCitizen}

Roles == ApprovalRoles \cup AuditRoles

\* the roles the callers of Spec and SpecSync submit step validations with:
\* the roles of the first two steps and a role of the external control
RolesTried == {RoleProjectDeveloper, RoleTechnicalCommission, RoleComptroller}

StatusDraft == "Draft"
StatusTechnicalReview == "TechnicalReview"
StatusLegalReview == "LegalReview"
StatusContractsReview == "ContractsReview"
StatusAdminReview == "AdminReview"
StatusBudgetReview == "BudgetReview"
StatusAuthorizedForPublication == "AuthorizedForPublication"
StatusRejected == "Rejected"
StatusCompleted == "Completed"

ValidationPending == "Pending"
ValidationApproved == "Approved"
ValidationRejected == "Rejected"

\* WorkflowManager.GetWorkflowSteps: the fixed template
GetWorkflowSteps ==
  << [stepNumber |-> 1, role |-> RoleProjectDeveloper, required |-> TRUE],
     [stepNumber |-> 2, role |-> RoleTechnicalCommission, required |-> TRUE],
     [stepNumber |-> 3, role |-> RoleLegalCommission, required |-> TRUE],
     [stepNumber |-> 4, role |-> RoleContractsChief, required |-> TRUE],
     [stepNumber |-> 5, role |-> RoleAdminChief, required |-> TRUE],
     [stepNumber |-> 6, role |-> RoleBudgetAuthority, required |-> TRUE] >>

(***************************************************************************)
(* Blocks and hashes.                                                      *)
(***************************************************************************)
\* the empty string in a Hash or PreviousHash field
NoHash == [none |-> TRUE]

\* a hash value that is the SHA-256 of no block of the model
ForgedHash(k) == [forged |-> k]

\* time.Time.Unix(): whole seconds of a reading in half seconds
Unix(t) == t \div 2

\* time.Time.IsZero()
IsZero(t) == t = 0

\* Block.calculateHash
calculateHash(b) ==
  [index |-> b.index, timestamp |-> Unix(b.timestamp), data |-> b.data,
   previous_hash |-> b.previous_hash, nonce |-> b.nonce, type |-> b.type]

\* a Block value with every field of the struct
Block(index, timestamp, data, previousHash, hash, nonce, type) ==
  [index |-> index, timestamp |-> timestamp, data |-> data,
   previous_hash |-> previousHash, hash |-> hash, nonce |-> nonce,
   type |-> type]

\* the assignment b.Hash = h
WithHash(b, h) ==
  Block(b.index, b.timestamp, b.data, b.previous_hash, h, b.nonce, b.type)

\* Block.IsValid
IsValid(b) == b.hash = calculateHash(b)

\* NewBlock: index 0, no type, hash over those fields
NewBlock(data, previousHash, now) ==
  LET b == Block(0, now, data, previousHash, NoHash, 0, "")
  IN  WithHash(b, calculateHash(b))

\* the genesis block of NewBlockchain
GenesisData == [message |-> "SECOP Blockchain Genesis Block"]

GenesisBlock(now) ==
  LET b == Block(0, now, GenesisData, NoHash, NoHash, 0, "")
  IN  WithHash(b, calculateHash(b))

\* Blockchain.getLatestBlock
getLatestBlock(ch) == ch[Len(ch)]

\* a block test that does not look at the link to the tail
IsValidBlockNoLink(ch, block) ==
  /\ block.hash # NoHash
  /\ ~IsZero(block.timestamp)

\* Blockchain.IsValidBlock
IsValidBlock(ch, block) ==
  /\ block.hash # NoHash
  /\ ~IsZero(block.timestamp)
  /\ ~(Len(ch) > 0 /\ block.previous_hash # ch[Len(ch)].hash)

\* Blockchain.HasBlock
HasBlock(ch, hash) == \E i \in 1..Len(ch) : ch[i].hash = hash

\* AddBlock without the second hashing: the block keeps the hash NewBlock
\* computed before the index and the type were set
BuildBlockStaleHash(ch, blockData, now) ==
  LET b0 == NewBlock(blockData, getLatestBlock(ch).hash, now)
      b1 == [b0 EXCEPT !.index = Len(ch)]
  IN  IF "type" \in DOMAIN blockData
        THEN [b1 EXCEPT !.type = blockData.type]
        ELSE b1

\* the block AddBlock builds from the data it is given
BuildBlock(ch, blockData, now) ==
  LET b0 == NewBlock(blockData, getLatestBlock(ch).hash, now)
      b1 == [b0 EXCEPT !.index = Len(ch)]
      b2 == IF "type" \in DOMAIN blockData
              THEN [b1 EXCEPT !.type = blockData.type]
              ELSE b1
  IN  WithHash(b2, calculateHash(b2))

\* Blockchain.AddBlock: the error it returns, "" for none
AddBlockErr(ch, blockData, now) ==
  IF IsValidBlock(ch, BuildBlock(ch, blockData, now))
    THEN ""
    ELSE "InvalidBlock"

\* Blockchain.AddBlock: the chain it leaves
AddBlock(ch, blockData, now) ==
  IF IsValidBlock(ch, BuildBlock(ch, blockData, now))
    THEN Append(ch, BuildBlock(ch, blockData, now))
    ELSE ch

\* Blockchain.IsChainValid
IsChainValid(ch) ==
  \A i \in 2..Len(ch) :
    /\ IsValid(ch[i])
    /\ ch[i].previous_hash = ch[i-1].hash

\* Blockchain.IsValidChain
IsValidChain(ch) ==
  /\ Len(ch) # 0
  /\ \A i \in 1..Len(ch) :
       /\ ch[i].hash # NoHash
       /\ (i > 1 => ch[i].previous_hash = ch[i-1].hash)

(***************************************************************************)
(* Contracts and the workflow.                                             *)
(***************************************************************************)
\* the entry addAuditEntry appends (its random id is left out)
AuditEntry(action, userID, role, now, description) ==
  [action |-> action, userID |-> userID, userRole |-> role,
   timestamp |-> now, description |-> description]

\* addAuditEntry that keeps the new entry only
addAuditEntryAlone(c, action, userID, role, now, description) ==
  [c EXCEPT !.auditTrail =
     <<AuditEntry(action, userID, role, now, description)>>]

\* WorkflowManager.addAuditEntry
addAuditEntry(c, action, userID, role, now, description) ==
  [c EXCEPT !.auditTrail =
     Append(@, AuditEntry(action, userID, role, now, description))]

\* Blockchain.validateContract: the error it returns, "" for none
validateContract(c) ==
  IF c.entityCode = "" THEN "ValidationError"
  ELSE IF c.entityName = "" THEN "ValidationError"
  ELSE IF c.description = "" THEN "ValidationError"
  ELSE IF c.amount <= 0 THEN "ValidationError"
  ELSE IF c.createdBy = "" THEN "ValidationError"
  ELSE ""

\* the ValidationStep a template step is stamped into
PendingStep(step) ==
  [stepNumber |-> step.stepNumber, role |-> step.role,
   status |-> ValidationPending, required |-> step.required,
   validatorID |-> "", validatorName |-> "", comments |-> "",
   timestamp |-> 0]

\* InitializeContractWorkflow without its audit entry
InitializeContractWorkflowNoAudit(c, now) ==
  [c EXCEPT
     !.validationSteps =
        [i \in 1..Len(GetWorkflowSteps) |-> PendingStep(GetWorkflowSteps[i])],
     !.currentStep = 1,
     !.status = StatusDraft,
     !.updatedAt = now]

\* WorkflowManager.InitializeContractWorkflow
InitializeContractWorkflow(c, now) ==
  LET c1 == [c EXCEPT
               !.validationSteps =
                  [i \in 1..Len(GetWorkflowSteps) |->
                     PendingStep(GetWorkflowSteps[i])],
               !.currentStep = 1,
               !.status = StatusDraft,
               !.updatedAt = now]
  IN  addAuditEntry(c1, "WORKFLOW_INITIALIZED", c1.createdBy,
                    RoleProjectDeveloper, now,
                    <<"Flujo de trabajo inicializado">>)

\* getStatusForStep with the case of step 3 lost: it falls to the default
getStatusForStepNoLegal(stepNumber) ==
  CASE stepNumber = 1 -> StatusDraft
    [] stepNumber = 2 -> StatusTechnicalReview
    [] stepNumber = 4 -> StatusContractsReview
    [] stepNumber = 5 -> StatusAdminReview
    [] stepNumber = 6 -> StatusBudgetReview
    [] OTHER -> StatusAuthorizedForPublication

\* getStatusForStep with the status of the last step's approval given to
\* the sixth step
getStatusForStepEarly(stepNumber) ==
  CASE stepNumber = 1 -> StatusDraft
    [] stepNumber = 2 -> StatusTechnicalReview
    [] stepNumber = 3 -> StatusLegalReview
    [] stepNumber = 4 -> StatusContractsReview
    [] stepNumber = 5 -> StatusAdminReview
    [] OTHER -> StatusAuthorizedForPublication

\* WorkflowManager.getStatusForStep
getStatusForStep(stepNumber) ==
  CASE stepNumber = 1 -> StatusDraft
    [] stepNumber = 2 -> StatusTechnicalReview
    [] stepNumber = 3 -> StatusLegalReview
    [] stepNumber = 4 -> StatusContractsReview
    [] stepNumber = 5 -> StatusAdminReview
    [] stepNumber = 6 -> StatusBudgetReview
    [] OTHER -> StatusAuthorizedForPublication

\* a step number test that lets later steps through
StepMatchesOrLater(c, stepNumber) == stepNumber >= c.currentStep

\* the step number test of ValidateStep
StepMatches(c, stepNumber) == stepNumber = c.currentStep

\* a role test that lets every role through
RoleMatchesAny(step, role) == role \in Roles

\* the role test of ValidateStep
RoleMatches(step, role) == step.role = role

\* WorkflowManager.ValidateStep: the error of its checks, "" for none
ValidateStepErr(cs, contractID, stepNumber, role) ==
  IF contractID \notin DOMAIN cs THEN "ContractNotFound"
  ELSE IF ~StepMatches(cs[contractID], stepNumber) THEN "StepMismatch"
  ELSE IF stepNumber > Len(cs[contractID].validationSteps) THEN "InvalidStep"
  ELSE IF ~RoleMatches(cs[contractID].validationSteps[stepNumber], role)
    THEN "RoleMismatch"
  ELSE ""

\* ValidateStep: the step after it is stamped with the decision
StampStep(step, validatorID, validatorName, approved, comments, now) ==
  [step EXCEPT !.validatorID = validatorID,
               !.validatorName = validatorName,
               !.timestamp = now,
               !.comments = comments,
               !.status = IF approved THEN ValidationApproved
                                      ELSE ValidationRejected]

\* the approved branch without the entry that closes the workflow
ApproveStepNoCompletion(c, stepNumber, validatorID, role, comments, now) ==
  LET c1 == addAuditEntry(c, "STEP_APPROVED", validatorID, role, now,
                          <<"Paso aprobado", stepNumber, comments>>)
  IN  IF stepNumber < Len(c.validationSteps)
        THEN [c1 EXCEPT !.currentStep = c.currentStep + 1,
                        !.status = getStatusForStep(c.currentStep + 1)]
        ELSE [c1 EXCEPT !.status = StatusAuthorizedForPublication]

\* ValidateStep, approved branch: audit entries, next step and status
ApproveStep(c, stepNumber, validatorID, role, comments, now) ==
  LET c1 == addAuditEntry(c, "STEP_APPROVED", validatorID, role, now,
                          <<"Paso aprobado", stepNumber, comments>>)
  IN  IF stepNumber < Len(c.validationSteps)
        THEN [c1 EXCEPT !.currentStep = c.currentStep + 1,
                        !.status = getStatusForStep(c.currentStep + 1)]
        ELSE addAuditEntry(
               [c1 EXCEPT !.status = StatusAuthorizedForPublication],
               "WORKFLOW_COMPLETED", validatorID, role, now,
               <<"Flujo de validacion completado">>)

\* a rejected branch that moves on to the next step
RejectStepAdvancing(c, stepNumber, validatorID, role, comments, now) ==
  addAuditEntry([c EXCEPT !.status = StatusRejected,
                          !.currentStep =
                             IF stepNumber < Len(c.validationSteps)
                               THEN @ + 1 ELSE @],
                "STEP_REJECTED", validatorID, role, now,
                <<"Paso rechazado", stepNumber, comments>>)

\* ValidateStep, rejected branch
RejectStep(c, stepNumber, validatorID, role, comments, now) ==
  addAuditEntry([c EXCEPT !.status = StatusRejected],
                "STEP_REJECTED", validatorID, role, now,
                <<"Paso rechazado", stepNumber, comments>>)

\* ValidateStep: the contract after a call that passed the checks
DecideStep(c, stepNumber, validatorID, validatorName, role, approved, comments, now) ==
  LET c1 == [c EXCEPT !.validationSteps[stepNumber] =
                        StampStep(@, validatorID, validatorName, approved,
                                  comments, now)]
      c2 == IF approved
              THEN ApproveStep(c1, stepNumber, validatorID, role, comments,
                               now)
              ELSE RejectStep(c1, stepNumber, validatorID, role, comments,
                              now)
  IN  [c2 EXCEPT !.updatedAt = now]

\* ValidateStep: the data of the block that records the decision
StepBlockData(contractID, stepNumber, validatorID, role, approved, comments, now) ==
  [type |-> "VALIDATION", contract_id |-> contractID, step |-> stepNumber,
   validator |-> validatorID, role |-> role, approved |-> approved,
   comments |-> comments, timestamp |-> now]

\* GetContractWorkflowStatus: the loop that counts the approved steps
RECURSIVE CountApproved(_)
CountApproved(steps) ==
  IF steps = <<>>
    THEN 0
    ELSE (IF Head(steps).status = ValidationApproved THEN 1 ELSE 0)
         + CountApproved(Tail(steps))

\* getNextRole that reads the step after the current one
getNextRoleFollowing(c) ==
  IF c.currentStep < Len(c.validationSteps)
    THEN c.validationSteps[c.currentStep + 1].role
    ELSE ""

\* WorkflowManager.getNextRole; ValidationSteps[CurrentStep-1] of the code is
\* validationSteps[currentStep] here, and an index below the slice panics
getNextRole(c) ==
  IF c.currentStep <= Len(c.validationSteps)
    THEN IF c.currentStep >= 1
           THEN c.validationSteps[c.currentStep].role
           ELSE "panic: index out of range"
    ELSE ""

\* WorkflowManager.GetContractWorkflowStatus of a registered contract
GetContractWorkflowStatus(cs, contractID) ==
  [contractID |-> contractID,
   currentStep |-> cs[contractID].currentStep,
   totalSteps |-> Len(cs[contractID].validationSteps),
   completedSteps |-> CountApproved(cs[contractID].validationSteps),
   status |-> cs[contractID].status,
   canAdvance |-> /\ cs[contractID].status # StatusRejected
                  /\ cs[contractID].status # StatusCompleted,
   nextRole |-> getNextRole(cs[contractID])]

\* the registry with contract c stored under id
Put(cs, id, c) ==
  [k \in DOMAIN cs \cup {id} |-> IF k = id THEN c ELSE cs[k]]

\* what the last call returned: the operation, the contract it named, its
\* error ("" for success) and the number of chains a synchronisation adopted
Result(op, id, err, adopted) ==
  [op |-> op, id |-> id, err |-> err, adopted |-> adopted]

(***************************************************************************)
(* The goroutines that run handlers side by side.  tasks[t] holds the      *)
(* position of goroutine t in the handler it runs, the arguments of the    *)
(* call and its local variables.                                           *)
(***************************************************************************)
TaskIds == {"t1", "t2"}

\* a goroutine that runs no handler
Idle == [pc |-> "idle", lock |-> ""]

\* the local variable block of AddBlock before it is assigned
NoBlock == <<>>

(***************************************************************************)
(* The state after construction: NewBlockchain and NewP2PNetwork.          *)
(***************************************************************************)
Init ==
  /\ \E now \in Clock : chain = <<GenesisBlock(now)>>
  /\ contracts = [k \in {} |-> 0]
  /\ peers = [k \in {} |-> 0]
  /\ last = Result("NewBlockchain", "", "", 0)
  /\ tasks = [t \in TaskIds |-> Idle]

(***************************************************************************)
(* The operations.  Each reads the clock once.                             *)
(***************************************************************************)
\* the Contract a caller hands to AddContract
InputContract(id, entityCode, entityName, contractType, description, amount, createdBy) ==
  [id |-> id, entityCode |-> entityCode, entityName |-> entityName,
   contractType |-> contractType, description |-> description,
   amount |-> amount, status |-> "", createdBy |-> createdBy,
   createdAt |-> 0, updatedAt |-> 0, currentStep |-> 0,
   validationSteps |-> <<>>, auditTrail |-> <<>>]

\* AddContract: the data of the creation block
CreationBlockData(c) ==
  [type |-> "CONTRACT_CREATION", contract_id |-> c.id,
   entity_code |-> c.entityCode, entity_name |-> c.entityName,
   amount |-> c.amount, created_by |-> c.createdBy,
   timestamp |-> c.createdAt]

\* AddContract: the contract it registers; uuid is the generated id
NewContract(input, uuid, now) ==
  InitializeContractWorkflow(
    [input EXCEPT !.id = IF input.id = "" THEN uuid ELSE input.id,
                  !.createdAt = now,
                  !.updatedAt = now,
                  !.status = StatusDraft],
    now)

\* Blockchain.AddContract
AddContract(input, uuid, now) ==
  IF validateContract(input) # ""
    THEN /\ last' = Result("AddContract", input.id, validateContract(input), 0)
         /\ UNCHANGED <<chain, contracts, peers>>
    ELSE LET c == NewContract(input, uuid, now)
         IN  /\ contracts' = Put(contracts, c.id, c)
             /\ chain' = AddBlock(chain, CreationBlockData(c), now)
             /\ last' = Result("AddContract", c.id,
                               AddBlockErr(chain, CreationBlockData(c), now),
                               0)
             /\ UNCHANGED peers

\* WorkflowManager.ValidateStep
ValidateStep(contractID, stepNumber, validatorID, validatorName, role, approved, comments, now) ==
  IF ValidateStepErr(contracts, contractID, stepNumber, role) # ""
    THEN /\ last' = Result("ValidateStep", contractID,
                           ValidateStepErr(contracts, contractID, stepNumber,
                                           role), 0)
         /\ UNCHANGED <<chain, contracts, peers>>
    ELSE LET data == StepBlockData(contractID, stepNumber, validatorID, role,
                                   approved, comments, now)
         IN  /\ contracts' =
                  [contracts EXCEPT ![contractID] =
                     DecideStep(@, stepNumber, validatorID, validatorName,
                                role, approved, comments, now)]
             /\ chain' = AddBlock(chain, data, now)
             /\ last' = Result("ValidateStep", contractID,
                               AddBlockErr(chain, data, now), 0)
             /\ UNCHANGED peers

\* AddAuditObservation without its test of the role
AddAuditObservationAnyRole(contractID, auditorID, role, observation, now) ==
  IF contractID \notin DOMAIN contracts
    THEN /\ last' = Result("AddAuditObservation", contractID,
                           "ContractNotFound", 0)
         /\ UNCHANGED <<chain, contracts, peers>>
    ELSE LET data == [type |-> "AUDIT_OBSERVATION",
                      contract_id |-> contractID, auditor |-> auditorID,
                      role |-> role, observation |-> observation,
                      timestamp |-> now]
         IN  /\ contracts' =
                  [contracts EXCEPT ![contractID] =
                     addAuditEntry(@, "AUDIT_OBSERVATION", auditorID, role,
                                   now, <<observation>>)]
             /\ chain' = AddBlock(chain, data, now)
             /\ last' = Result("AddAuditObservation", contractID,
                               AddBlockErr(chain, data, now), 0)
             /\ UNCHANGED peers

\* WorkflowManager.AddAuditObservation
AddAuditObservation(contractID, auditorID, role, observation, now) ==
  IF contractID \notin DOMAIN contracts
    THEN /\ last' = Result("AddAuditObservation", contractID,
                           "ContractNotFound", 0)
         /\ UNCHANGED <<chain, contracts, peers>>
  ELSE IF role # RoleComptroller /\ role # RoleProsecutor
          /\ role # RoleCitizen
    THEN /\ last' = Result("AddAuditObservation", contractID,
                           "UnauthorizedRole", 0)
         /\ UNCHANGED <<chain, contracts, peers>>
  ELSE LET data == [type |-> "AUDIT_OBSERVATION",
                    contract_id |-> contractID, auditor |-> auditorID,
                    role |-> role, observation |-> observation,
                    timestamp |-> now]
       IN  /\ contracts' =
                [contracts EXCEPT ![contractID] =
                   addAuditEntry(@, "AUDIT_OBSERVATION", auditorID, role,
                                 now, <<observation>>)]
           /\ chain' = AddBlock(chain, data, now)
           /\ last' = Result("AddAuditObservation", contractID,
                             AddBlockErr(chain, data, now), 0)
           /\ UNCHANGED peers

\* Blockchain.ValidateContract
ValidateContract(contractID, nodeID, approved, reason, now) ==
  IF contractID \notin DOMAIN contracts
    THEN /\ last' = Result("ValidateContract", contractID,
                           "ContractNotFound", 0)
         /\ UNCHANGED <<chain, contracts, peers>>
    ELSE LET data == [type |-> "VALIDATION", contract_id |-> contractID,
                      node_id |-> nodeID, approved |-> approved,
                      reason |-> reason, timestamp |-> now]
         IN  /\ contracts' =
                  IF approved
                    THEN contracts
                    ELSE [contracts EXCEPT
                            ![contractID].status = StatusRejected]
             /\ chain' = AddBlock(chain, data, now)
             /\ last' = Result("ValidateContract", contractID,
                               AddBlockErr(chain, data, now), 0)
             /\ UNCHANGED peers

\* ReceiveBlock: the data it hands to AddBlock
ReceivedBlockData(block) ==
  [type |-> block.type, data |-> block.data,
   timestamp |-> block.timestamp, previous_hash |-> block.previous_hash,
   nonce |-> block.nonce]

\* P2PNetwork.ReceiveBlock
ReceiveBlock(block, now) ==
  IF ~IsValidBlock(chain, block)
    THEN /\ last' = Result("ReceiveBlock", "", "InvalidBlock", 0)
         /\ UNCHANGED <<chain, contracts, peers>>
  ELSE IF HasBlock(chain, block.hash)
    THEN /\ last' = Result("ReceiveBlock", "", "", 0)
         /\ UNCHANGED <<chain, contracts, peers>>
  ELSE /\ chain' = AddBlock(chain, ReceivedBlockData(block), now)
       /\ last' = Result("ReceiveBlock", "",
                         AddBlockErr(chain, ReceivedBlockData(block), now),
                         0)
       /\ UNCHANGED <<contracts, peers>>

(***************************************************************************)
(* Peers and synchronisation.                                              *)
(***************************************************************************)
\* P2PNetwork.AddPeer
AddPeer(peerID, address, port, now) ==
  /\ peers' = [k \in DOMAIN peers \cup {peerID} |->
                 IF k = peerID
                   THEN [id |-> peerID, address |-> address, port |-> port,
                         lastSeen |-> now, active |-> TRUE]
                   ELSE peers[k]]
  /\ last' = Result("AddPeer", peerID, "", 0)
  /\ UNCHANGED <<chain, contracts>>

\* HealthCheck that probes the active peers only
HealthCheckActiveOnly(answers, now) ==
  /\ peers' = [k \in DOMAIN peers |->
                 IF ~peers[k].active THEN peers[k]
                 ELSE IF answers[k]
                   THEN [peers[k] EXCEPT !.active = TRUE, !.lastSeen = now]
                   ELSE [peers[k] EXCEPT !.active = FALSE]]
  /\ last' = Result("HealthCheck", "", "", 0)
  /\ UNCHANGED <<chain, contracts>>

\* P2PNetwork.HealthCheck; answers[p] tells whether the probe of p succeeds
HealthCheck(answers, now) ==
  /\ peers' = [k \in DOMAIN peers |->
                 IF answers[k]
                   THEN [peers[k] EXCEPT !.active = TRUE, !.lastSeen = now]
                   ELSE [peers[k] EXCEPT !.active = FALSE]]
  /\ last' = Result("HealthCheck", "", "", 0)
  /\ UNCHANGED <<chain, contracts>>

\* what requestChainFromPeer returns: a transport error or the decoded chain
TransportError == [err |-> TRUE, chain |-> <<>>]

Pulled(ch) == [err |-> FALSE, chain |-> ch]

\* an adoption test that takes a chain of the same length too
AdoptsNotShorter(local, answer) ==
  /\ ~answer.err
  /\ Len(answer.chain) >= Len(local)
  /\ IsValidChain(answer.chain)

\* SyncWithPeers: the test that decides the adoption of a pulled chain
Adopts(local, answer) ==
  /\ ~answer.err
  /\ Len(answer.chain) > Len(local)
  /\ IsValidChain(answer.chain)

\* SyncWithPeers: the local chain after the answer of one peer
SyncStep(local, answer) ==
  IF Adopts(local, answer) THEN answer.chain ELSE local

\* SyncWithPeers: the local chain after the answers of the peers in order
RECURSIVE SyncFold(_, _, _)
SyncFold(local, order, answers) ==
  IF order = <<>>
    THEN local
    ELSE SyncFold(SyncStep(local, answers[Head(order)]), Tail(order),
                  answers)

\* SyncWithPeers: how many pulled chains are adopted on the way
RECURSIVE SyncAdoptions(_, _, _)
SyncAdoptions(local, order, answers) ==
  IF order = <<>>
    THEN 0
    ELSE (IF Adopts(local, answers[Head(order)]) THEN 1 ELSE 0)
         + SyncAdoptions(SyncStep(local, answers[Head(order)]), Tail(order),
                         answers)

\* fmt.Sprintf("%v", block.Data): Go's map notation around the entries
SprintfV(data) == <<"map[", data, "]">>

\* json.Unmarshal into a Contract succeeds only on a JSON object text
UnmarshalOK(text) == text[1] = "{"

\* P2PNetwork.rebuildContractsFromChain
rebuildContractsFromChain(ch) ==
  LET decoded == {i \in 1..Len(ch) :
                    /\ ch[i].type = "CONTRACT_CREATION"
                    /\ UnmarshalOK(SprintfV(ch[i].data))}
      ids == {ch[i].data.contract_id : i \in decoded}
  IN  [k \in ids |-> InputContract(k, "", "", "", "", 0, "")]

\* P2PNetwork.GetActivePeers
GetActivePeers == {p \in DOMAIN peers : peers[p].active}

\* the active peers in an order the map iteration may visit them
ActiveOrders ==
  {o \in [1..Cardinality(GetActivePeers) -> GetActivePeers] :
     \A i, j \in 1..Cardinality(GetActivePeers) : i # j => o[i] # o[j]}

\* P2PNetwork.SyncWithPeers; answers[p] is what the pull from p returns
SyncWithPeers(order, answers) ==
  /\ chain' = SyncFold(chain, order, answers)
  /\ contracts' = IF SyncAdoptions(chain, order, answers) > 0
                    THEN rebuildContractsFromChain(chain')
                    ELSE contracts
  /\ last' = Result("SyncWithPeers", "", "",
                    SyncAdoptions(chain, order, answers))
  /\ UNCHANGED peers

(***************************************************************************)
(* What the network delivers: blocks sent to ReceiveBlock and chains       *)
(* answered to a pull.  A peer builds its blocks as this program does; a   *)
(* faulty or hostile peer alters them afterwards.                          *)
(***************************************************************************)
\* the payloads of the blocks of a peer
PeerCreationData ==
  [type |-> "CONTRACT_CREATION", contract_id |-> "c2", entity_code |-> "x",
   entity_name |-> "x", amount |-> 100, created_by |-> "x", timestamp |-> 2]

PeerValidationData ==
  [type |-> "VALIDATION", contract_id |-> "c2", node_id |-> "n1",
   approved |-> TRUE, reason |-> "x", timestamp |-> 2]

PeerTamperedData ==
  [type |-> "VALIDATION", contract_id |-> "c2", node_id |-> "n1",
   approved |-> FALSE, reason |-> "x", timestamp |-> 2]

PeerPayloads == {PeerCreationData, PeerValidationData}

\* the block a peer appends to ch for a payload, hashed as AddBlock does
PeerBlock(ch, data, ts) ==
  LET b == Block(Len(ch), ts, data,
                 IF Len(ch) = 0 THEN NoHash ELSE ch[Len(ch)].hash,
                 NoHash, 0, data.type)
  IN  WithHash(b, calculateHash(b))

\* the blocks whose receipt left the tail of the local chain: ReceiveBlock
\* keeps the fields of the block it received, all but the index and the
\* hash, as the data of the block it appends
Redelivered ==
  LET d == chain[Len(chain)].data
      b == Block(Len(chain) - 1, d.timestamp, d.data, d.previous_hash, NoHash,
                 d.nonce, d.type)
  IN  IF "previous_hash" \in DOMAIN d
        THEN {WithHash(b, calculateHash(b)), WithHash(b, ForgedHash(1))}
        ELSE {}

\* the blocks ReceiveBlock is called with: blocks a peer built on the local
\* chain, such blocks altered, blocks the chain holds, and the block received
\* last, delivered once more
ReceivedBlocks ==
  LET honest == {PeerBlock(chain, d, ts) : d \in PeerPayloads,
                                            ts \in PeerTimes}
  IN  honest
      \cup {WithHash(b, ForgedHash(1)) : b \in honest}
      \cup {WithHash(b, NoHash) : b \in honest}
      \cup {[b EXCEPT !.previous_hash = ForgedHash(0)] : b \in honest}
      \cup {chain[i] : i \in 1..Len(chain)}
      \cup Redelivered

\* a chain a peer grew from base to n blocks
RECURSIVE PeerChain(_, _)
PeerChain(base, n) ==
  IF Len(base) >= n
    THEN base
    ELSE PeerChain(
           Append(base,
                  PeerBlock(base,
                            IF Len(base) = 1 THEN PeerCreationData
                                             ELSE PeerValidationData,
                            2)),
           n)

\* the chains of peers that run this program: a peer with its own genesis
\* block, and a peer that holds the local chain and one block more
HonestChains ==
  {PeerChain(<<GenesisBlock(4)>>, n) : n \in 2..MaxPeerChain}
  \cup {PeerChain(chain, Len(chain) + 1) : n \in Len(chain) + 1..MaxPeerChain}

\* the longest chain of such a peer, altered after its blocks were hashed:
\* a link broken at the tail, the data or the hash of the second block
TamperedChains ==
  LET ch == PeerChain(<<GenesisBlock(4)>>, MaxPeerChain)
  IN  {[ch EXCEPT ![Len(ch)].previous_hash = ForgedHash(0)],
       [ch EXCEPT ![2].data = PeerTamperedData],
       [ch EXCEPT ![2].hash = NoHash]}

\* what a pull from a peer returns
PeerAnswers ==
  {TransportError} \cup {Pulled(ch) : ch \in HonestChains \cup TamperedChains}

(***************************************************************************)
(* Bounds on the chains the specifications build.                          *)
(***************************************************************************)
IsCreation(b) == b.type = "CONTRACT_CREATION"

IsStepValidation(b) == b.type = "VALIDATION" /\ "step" \in DOMAIN b.data

WithinBounds(ch) == Len(ch) <= MaxChain

IsApproval(b) == IsStepValidation(b) /\ b.data.approved

WithinPathBounds(ch) ==
  /\ Len(ch) <= MaxPathChain
  /\ Len(ch) - 1 - Cardinality({i \in 1..Len(ch) : IsApproval(ch[i])})
       - (IF \E i \in 1..Len(ch) : IsCreation(ch[i]) THEN 1 ELSE 0)
       <= MaxPathDetours

WithinSyncBounds(ch) == Len(ch) <= MaxSyncChain

WithinCreateBounds(ch) == Len(ch) <= MaxCreateChain

(***************************************************************************)
(* The calls, with their inputs drawn from the given sets.                 *)
(***************************************************************************)
\* the contracts callers submit: a complete one, and one with each field
\* missing in turn
ValidInput(id) == InputContract(id, "x", "x", "x", "x", 100, "x")

InputsFor(id) ==
  {ValidInput(id),
   InputContract(id, "", "x", "x", "x", 100, "x"),
   InputContract(id, "x", "", "x", "x", 100, "x"),
   InputContract(id, "x", "x", "", "x", 100, "x"),
   InputContract(id, "x", "x", "x", "", 100, "x"),
   InputContract(id, "x", "x", "x", "x", 0, "x"),
   InputContract(id, "x", "x", "x", "x", 100, "")}

\* a contract submitted with the fields of a workflow under way: the
\* handler binds the whole Contract of the request body
PrefilledInput(id) ==
  [ValidInput(id) EXCEPT
     !.status = StatusRejected,
     !.currentStep = 5,
     !.validationSteps =
        <<[PendingStep(GetWorkflowSteps[1]) EXCEPT
             !.status = ValidationApproved]>>,
     !.auditTrail = <<AuditEntry("STEP_APPROVED", "x", RoleTechnicalCommission,
                                 1, <<"x">>)>>]

CreateInputs ==
  InputsFor("c1") \cup {ValidInput(""), PrefilledInput("c1"),
                        PrefilledInput("c2")}

AllInputs == UNION {InputsFor(id) : id \in ContractIds \cup {""}}

PathInputs == {ValidInput("c1")}

CallAddContract(inputs) ==
  /\ \E input \in inputs, now \in Clock :
       IF input.id = ""
         THEN \E uuid \in ContractIds \ DOMAIN contracts :
                AddContract(input, uuid, now)
         ELSE AddContract(input, "", now)
  /\ UNCHANGED tasks

CallValidateStep(ids, roles) ==
  /\ \E id \in ids, stepNumber \in StepNumbers,
        validatorID \in ValidatorIds, validatorName \in ValidatorNames,
        role \in roles, approved \in Booleans, comments \in CommentTexts,
        now \in Clock :
       ValidateStep(id, stepNumber, validatorID, validatorName, role, approved,
                    comments, now)
  /\ UNCHANGED tasks

CallAddAuditObservation(ids) ==
  /\ \E id \in ids, auditorID \in ValidatorIds, role \in Roles,
        observation \in CommentTexts, now \in Clock :
       AddAuditObservation(id, auditorID, role, observation, now)
  /\ UNCHANGED tasks

CallValidateContract(ids) ==
  /\ \E id \in ids, nodeID \in NodeIds, approved \in Booleans,
        reason \in CommentTexts, now \in Clock :
       ValidateContract(id, nodeID, approved, reason, now)
  /\ UNCHANGED tasks

CallReceiveBlock ==
  /\ \E block \in ReceivedBlocks, now \in Clock : ReceiveBlock(block, now)
  /\ UNCHANGED tasks

CallAddPeer ==
  /\ \E peerID \in PeerIds, now \in Clock : AddPeer(peerID, "host", "8080", now)
  /\ UNCHANGED tasks

CallHealthCheck ==
  /\ \E answers \in [DOMAIN peers -> Booleans], now \in Clock :
       HealthCheck(answers, now)
  /\ UNCHANGED tasks

CallSyncWithPeers ==
  /\ \E order \in ActiveOrders, answers \in [GetActivePeers -> PeerAnswers] :
       SyncWithPeers(order, answers)
  /\ UNCHANGED tasks

(***************************************************************************)
(* Handlers run by goroutines, statement by statement.  The HTTP server    *)
(* runs every request in a goroutine of its own, and neither the handlers  *)
(* nor Blockchain nor WorkflowManager take a lock: the steps of two calls  *)
(* interleave freely.  Each step below is one stretch of a handler between *)
(* two accesses to the shared chain or registry.                           *)
(***************************************************************************)
\* the goroutines that run a handler
Running == {t \in TaskIds : tasks[t].pc # "idle"}

\* a goroutine starts ValidateStep with the arguments of its request
BeginValidateStep(t, contractID, stepNumber, validatorID, validatorName, role, approved, comments) ==
  /\ tasks[t].pc = "idle"
  /\ tasks' = [tasks EXCEPT ![t] =
                 [pc |-> "check", lock |-> "", op |-> "ValidateStep",
                  id |-> contractID, stepNumber |-> stepNumber,
                  validatorID |-> validatorID,
                  validatorName |-> validatorName, role |-> role,
                  approved |-> approved, comments |-> comments,
                  block |-> NoBlock, err |-> "", adopted |-> 0,
                  entry |-> contracts]]
  /\ UNCHANGED <<chain, contracts, peers, last>>

\* ValidateStep: the lookup of the contract and the three checks
ValidateStepCheck(t) ==
  /\ tasks[t].pc = "check"
  /\ LET a == tasks[t]
         e == ValidateStepErr(contracts, a.id, a.stepNumber, a.role)
     IN  tasks' = [tasks EXCEPT ![t] =
                     IF e # "" THEN [a EXCEPT !.pc = "done", !.err = e]
                               ELSE [a EXCEPT !.pc = "decide"]]
  /\ UNCHANGED <<chain, contracts, peers, last>>

\* ValidateStep: the step is stamped and the contract moved on
ValidateStepDecide(t) ==
  /\ tasks[t].pc = "decide"
  /\ \E now \in Clock :
       contracts' =
         [contracts EXCEPT ![tasks[t].id] =
            DecideStep(@, tasks[t].stepNumber, tasks[t].validatorID,
                       tasks[t].validatorName, tasks[t].role,
                       tasks[t].approved, tasks[t].comments, now)]
  /\ tasks' = [tasks EXCEPT ![t].pc = "build"]
  /\ UNCHANGED <<chain, peers, last>>

\* a goroutine starts ReceiveBlock with the block of its request
BeginReceiveBlock(t, block) ==
  /\ tasks[t].pc = "idle"
  /\ tasks' = [tasks EXCEPT ![t] =
                 [pc |-> "receive", lock |-> "", op |-> "ReceiveBlock",
                  id |-> "", received |-> block, block |-> NoBlock,
                  err |-> "", adopted |-> 0, entry |-> contracts]]
  /\ UNCHANGED <<chain, contracts, peers, last>>

\* ReceiveBlock: the tests IsValidBlock and HasBlock
ReceiveBlockCheck(t) ==
  /\ tasks[t].pc = "receive"
  /\ tasks' = [tasks EXCEPT ![t] =
                 IF ~IsValidBlock(chain, tasks[t].received)
                   THEN [@ EXCEPT !.pc = "done", !.err = "InvalidBlock"]
                 ELSE IF HasBlock(chain, tasks[t].received.hash)
                   THEN [@ EXCEPT !.pc = "done"]
                 ELSE [@ EXCEPT !.pc = "build"]]
  /\ UNCHANGED <<chain, contracts, peers, last>>

\* the data the handler of a goroutine hands to AddBlock
TaskBlockData(a, now) ==
  IF a.op = "ValidateStep"
    THEN StepBlockData(a.id, a.stepNumber, a.validatorID, a.role, a.approved,
                       a.comments, now)
    ELSE ReceivedBlockData(a.received)

\* AddBlock: the block is built on the tail and the length read now
AddBlockBuild(t) ==
  /\ tasks[t].pc = "build"
  /\ \E now \in Clock :
       tasks' = [tasks EXCEPT ![t].pc = "valid",
                              ![t].block =
                                BuildBlock(chain, TaskBlockData(tasks[t], now),
                                           now)]
  /\ UNCHANGED <<chain, contracts, peers, last>>

\* AddBlock: the test IsValidBlock against the tail read now
AddBlockValid(t) ==
  /\ tasks[t].pc = "valid"
  /\ tasks' = [tasks EXCEPT ![t] =
                 IF IsValidBlock(chain, tasks[t].block)
                   THEN [@ EXCEPT !.pc = "append"]
                   ELSE [@ EXCEPT !.pc = "done", !.err = "InvalidBlock"]]
  /\ UNCHANGED <<chain, contracts, peers, last>>

\* AddBlock: the append
AddBlockAppend(t) ==
  /\ tasks[t].pc = "append"
  /\ chain' = Append(chain, tasks[t].block)
  /\ tasks' = [tasks EXCEPT ![t].pc = "done"]
  /\ UNCHANGED <<contracts, peers, last>>

\* the handler returns its error to the request
Return(t) ==
  /\ tasks[t].pc = "done"
  /\ last' = Result(tasks[t].op, tasks[t].id, tasks[t].err,
                    tasks[t].adopted)
  /\ tasks' = [tasks EXCEPT ![t] = Idle]
  /\ UNCHANGED <<chain, contracts, peers>>

\* the steps the concurrent requests ask to validate
RaceSteps == {1, 2}

\* the blocks the concurrent requests deliver
RaceBlocks == {PeerBlock(chain, d, 3) : d \in PeerPayloads}

\* the chain, with a block for every running handler, stays within the bound
WithinRaceBounds == Len(chain) + Cardinality(Running) < MaxRaceChain

(***************************************************************************)
(* SpecRace: one contract, and two goroutines that validate its steps and  *)
(* receive blocks at the same time.                                        *)
(***************************************************************************)
NextRace ==
  \/ /\ Running = {}
     /\ "c1" \notin DOMAIN contracts
     /\ CallAddContract(PathInputs)
  \/ \E t \in TaskIds, stepNumber \in RaceSteps, approved \in Booleans :
       /\ WithinRaceBounds
       /\ BeginValidateStep(t, "c1", stepNumber, "v1", "n1",
                            GetWorkflowSteps[stepNumber].role, approved, "ok")
  \/ \E t \in TaskIds, block \in RaceBlocks :
       WithinRaceBounds /\ BeginReceiveBlock(t, block)
  \/ \E t \in TaskIds : ValidateStepCheck(t)
  \/ \E t \in TaskIds : ValidateStepDecide(t)
  \/ \E t \in TaskIds : ReceiveBlockCheck(t)
  \/ \E t \in TaskIds : AddBlockBuild(t)
  \/ \E t \in TaskIds : AddBlockValid(t)
  \/ \E t \in TaskIds : AddBlockAppend(t)
  \/ \E t \in TaskIds : Return(t)

SpecRace == Init /\ [][NextRace]_vars

(***************************************************************************)
(* The peer network's handlers, statement by statement, with the           *)
(* sync.RWMutex of P2PNetwork.  tasks[t].lock tells how goroutine t holds  *)
(* the mutex: "W" after Lock, "R" after RLock, "" otherwise.               *)
(***************************************************************************)
\* mutex.Lock() returns for goroutine t: nobody else holds the mutex
CanLock(t) == \A u \in TaskIds \ {t} : tasks[u].lock = ""

\* mutex.RLock() returns for goroutine t: nobody else holds it exclusively
CanRLock(t) == \A u \in TaskIds \ {t} : tasks[u].lock # "W"

\* a goroutine starts HealthCheck or SyncWithPeers
BeginPeerTask(t, op) ==
  /\ tasks[t].pc = "idle"
  /\ tasks' = [tasks EXCEPT ![t] =
                 [pc |-> "lock", lock |-> "", op |-> op, id |-> "",
                  todo |-> {}, cur |-> "", err |-> "", adopted |-> 0]]
  /\ UNCHANGED <<chain, contracts, peers, last>>

\* HealthCheck: Lock, and the loop over the peers begins
HealthCheckLock(t) ==
  /\ tasks[t].pc = "lock" /\ tasks[t].op = "HealthCheck"
  /\ CanLock(t)
  /\ tasks' = [tasks EXCEPT ![t].lock = "W", ![t].pc = "loop",
                            ![t].todo = DOMAIN peers]
  /\ UNCHANGED <<chain, contracts, peers, last>>

\* HealthCheck: client.Get is sent to the next peer
HealthCheckProbe(t) ==
  /\ tasks[t].pc = "loop" /\ tasks[t].op = "HealthCheck"
  /\ \E p \in tasks[t].todo :
       tasks' = [tasks EXCEPT ![t].pc = "probing", ![t].cur = p,
                              ![t].todo = @ \ {p}]
  /\ UNCHANGED <<chain, contracts, peers, last>>

\* HealthCheck: client.Get returns, within its timeout, and the peer is
\* marked
HealthCheckAnswer(t) ==
  /\ tasks[t].pc = "probing"
  /\ \E ok \in Booleans, now \in Clock :
       peers' = [peers EXCEPT ![tasks[t].cur] =
                   IF ok THEN [@ EXCEPT !.active = TRUE, !.lastSeen = now]
                         ELSE [@ EXCEPT !.active = FALSE]]
  /\ tasks' = [tasks EXCEPT ![t].pc = "loop", ![t].cur = ""]
  /\ UNCHANGED <<chain, contracts, last>>

\* HealthCheck: the loop is over, the deferred Unlock runs
HealthCheckUnlock(t) ==
  /\ tasks[t].pc = "loop" /\ tasks[t].op = "HealthCheck"
  /\ tasks[t].todo = {}
  /\ tasks' = [tasks EXCEPT ![t].lock = "", ![t].pc = "done"]
  /\ UNCHANGED <<chain, contracts, peers, last>>

\* SyncWithPeers: RLock, and the loop over the peers begins
SyncRLock(t) ==
  /\ tasks[t].pc = "lock" /\ tasks[t].op = "SyncWithPeers"
  /\ CanRLock(t)
  /\ tasks' = [tasks EXCEPT ![t].lock = "R", ![t].pc = "loop",
                            ![t].todo = DOMAIN peers]
  /\ UNCHANGED <<chain, contracts, peers, last>>

\* SyncWithPeers: an inactive peer is skipped, http.Get is sent to an
\* active one
SyncPull(t) ==
  /\ tasks[t].pc = "loop" /\ tasks[t].op = "SyncWithPeers"
  /\ \E p \in tasks[t].todo :
       tasks' = IF peers[p].active
                  THEN [tasks EXCEPT ![t].pc = "pulling", ![t].cur = p,
                                     ![t].todo = @ \ {p}]
                  ELSE [tasks EXCEPT ![t].todo = @ \ {p}]
  /\ UNCHANGED <<chain, contracts, peers, last>>

\* SyncWithPeers: http.Get returns and the pulled chain is adopted or not
SyncAnswer(t) ==
  /\ tasks[t].pc = "pulling"
  /\ \E answer \in PeerAnswers :
       /\ chain' = SyncStep(chain, answer)
       /\ contracts' = IF Adopts(chain, answer)
                         THEN rebuildContractsFromChain(chain')
                         ELSE contracts
       /\ tasks' = [tasks EXCEPT ![t].pc = "loop", ![t].cur = "",
                                 ![t].adopted =
                                   IF Adopts(chain, answer) THEN @ + 1 ELSE @]
  /\ UNCHANGED <<peers, last>>

\* SyncWithPeers: the loop is over, the deferred RUnlock runs
SyncRUnlock(t) ==
  /\ tasks[t].pc = "loop" /\ tasks[t].op = "SyncWithPeers"
  /\ tasks[t].todo = {}
  /\ tasks' = [tasks EXCEPT ![t].lock = "", ![t].pc = "done"]
  /\ UNCHANGED <<chain, contracts, peers, last>>

(***************************************************************************)
(* SpecLocks: two goroutines that run HealthCheck and SyncWithPeers, as    *)
(* the periodic tasks and the sync route do, while peers are added.        *)
(* AddPeer holds the mutex from its first statement to its last.           *)
(***************************************************************************)
NextLocks ==
  \/ (\A t \in TaskIds : tasks[t].lock = "") /\ CallAddPeer
  \/ \E t \in TaskIds, op \in {"HealthCheck", "SyncWithPeers"} :
       BeginPeerTask(t, op)
  \/ \E t \in TaskIds : HealthCheckLock(t)
  \/ \E t \in TaskIds : HealthCheckProbe(t)
  \/ \E t \in TaskIds : HealthCheckAnswer(t)
  \/ \E t \in TaskIds : HealthCheckUnlock(t)
  \/ \E t \in TaskIds : SyncRLock(t)
  \/ \E t \in TaskIds : SyncPull(t)
  \/ \E t \in TaskIds : SyncAnswer(t)
  \/ \E t \in TaskIds : SyncRUnlock(t)
  \/ \E t \in TaskIds : Return(t)

SpecLocks == Init /\ [][NextLocks]_vars

(***************************************************************************)
(* BroadcastBlock.  The handlers start it in a goroutine of its own after  *)
(* a block was appended; it starts one goroutine per active peer, which    *)
(* posts the block and marks the peer inactive when the post fails.  The   *)
(* goroutines of TaskIds are the ones that deliver.                        *)
(***************************************************************************)
\* the goroutine BroadcastBlock starts for the peer p: sendBlockToPeer is
\* under way
Sending(p, block) ==
  [pc |-> "sending", lock |-> "", op |-> "sendBlockToPeer", id |-> p,
   todo |-> {}, cur |-> p, err |-> "", adopted |-> 0, block |-> block]

\* the ways to hand the active peers to goroutines that are free
Deliveries ==
  LET free == {t \in TaskIds : tasks[t].pc = "idle"}
  IN  {f \in [GetActivePeers -> free] :
         \A p, q \in GetActivePeers : p # q => f[p] # f[q]}

\* P2PNetwork.BroadcastBlock, from RLock to the deferred RUnlock: no network
\* call is made in between, the deliveries run in the goroutines it starts
BroadcastBlock(block) ==
  /\ \A t \in TaskIds : tasks[t].lock # "W"
  /\ \E f \in Deliveries :
       tasks' = [t \in TaskIds |->
                   IF \E p \in GetActivePeers : f[p] = t
                     THEN Sending(CHOOSE p \in GetActivePeers : f[p] = t,
                                  block)
                     ELSE tasks[t]]
  /\ last' = Result("BroadcastBlock", "", "", 0)
  /\ UNCHANGED <<chain, contracts, peers>>

\* createContract and validateContract of main.go: the tail of the chain is
\* what they broadcast
CallBroadcastBlock == BroadcastBlock(getLatestBlock(chain))

\* sendBlockToPeer returns in the goroutine t: without an error the goroutine
\* ends, with one it goes on to markPeerInactive
SendBlockReturn(t) ==
  /\ tasks[t].pc = "sending"
  /\ \E ok \in Booleans :
       IF ok
         THEN /\ tasks' = [tasks EXCEPT ![t] = Idle]
              /\ last' = Result("sendBlockToPeer", tasks[t].id, "", 0)
         ELSE /\ tasks' = [tasks EXCEPT ![t].pc = "mark",
                                        ![t].err = "SendFailed"]
              /\ UNCHANGED last
  /\ UNCHANGED <<chain, contracts, peers>>

\* markPeerInactive that marks every peer
markEveryPeerInactive(ps, peerID) ==
  [k \in DOMAIN ps |-> [ps[k] EXCEPT !.active = FALSE]]

\* P2PNetwork.markPeerInactive: the registry it leaves
markPeerInactive(ps, peerID) ==
  IF peerID \in DOMAIN ps
    THEN [ps EXCEPT ![peerID].active = FALSE]
    ELSE ps

\* the goroutine t, whose post failed, runs markPeerInactive: Lock, the
\* write, Unlock
MarkInactive(t) ==
  /\ tasks[t].pc = "mark"
  /\ CanLock(t)
  /\ peers' = markPeerInactive(peers, tasks[t].id)
  /\ tasks' = [tasks EXCEPT ![t] = Idle]
  /\ last' = Result("markPeerInactive", tasks[t].id, tasks[t].err, 0)
  /\ UNCHANGED <<chain, contracts>>

(***************************************************************************)
(* SpecBroadcast: a node with peers that creates a contract, broadcasts    *)
(* its blocks and checks the health of its peers.                          *)
(***************************************************************************)
NextBroadcast ==
  \/ CallAddContract(PathInputs) /\ WithinSyncBounds(chain')
  \/ CallAddPeer
  \/ CallHealthCheck
  \/ CallBroadcastBlock
  \/ \E t \in TaskIds : SendBlockReturn(t)
  \/ \E t \in TaskIds : MarkInactive(t)

SpecBroadcast == Init /\ [][NextBroadcast]_vars

(***************************************************************************)
(* SpecLive: the peer network with a peer that accepts connections and     *)
(* never answers.  client.Get of HealthCheck has a timeout of five seconds *)
(* and returns an error for such a peer; http.Get of requestChainFromPeer  *)
(* and http.Post of sendBlockToPeer use the default client, which has no   *)
(* timeout, and return only when the peer answers.  AddPeer is followed    *)
(* from its call to its return, so that its wait for the mutex shows.      *)
(***************************************************************************)
\* the peers that never answer
Unresponsive == {"p2"}

\* a goroutine starts AddPeer
BeginAddPeer(t, peerID) ==
  /\ tasks[t].pc = "idle"
  /\ tasks' = [tasks EXCEPT ![t] =
                 [pc |-> "lock", lock |-> "", op |-> "AddPeer", id |-> peerID,
                  todo |-> {}, cur |-> "", err |-> "", adopted |-> 0]]
  /\ UNCHANGED <<chain, contracts, peers, last>>

\* AddPeer: Lock, the write of the peer, the deferred Unlock
AddPeerLocked(t) ==
  /\ tasks[t].pc = "lock" /\ tasks[t].op = "AddPeer"
  /\ CanLock(t)
  /\ \E now \in Clock :
       peers' = [k \in DOMAIN peers \cup {tasks[t].id} |->
                   IF k = tasks[t].id
                     THEN [id |-> k, address |-> "host", port |-> "8080",
                           lastSeen |-> now, active |-> TRUE]
                     ELSE peers[k]]
  /\ tasks' = [tasks EXCEPT ![t].pc = "done"]
  /\ UNCHANGED <<chain, contracts, last>>

\* HealthCheck: the probe of a peer that never answers ends by its timeout,
\* with an error
LiveHealthCheckAnswer(t) ==
  /\ HealthCheckAnswer(t)
  /\ tasks[t].cur \in Unresponsive => ~peers'[tasks[t].cur].active

\* SyncWithPeers: http.Get returns when the peer answers; the peers of
\* SpecLive answer with an error or with a chain that is no longer than the
\* local one, and nothing is adopted
LiveSyncAnswer(t) ==
  /\ tasks[t].pc = "pulling"
  /\ tasks[t].cur \notin Unresponsive
  /\ tasks' = [tasks EXCEPT ![t].pc = "loop", ![t].cur = ""]
  /\ UNCHANGED <<chain, contracts, peers, last>>

\* sendBlockToPeer: http.Post returns when the peer answers
LiveSendBlockReturn(t) ==
  /\ tasks[t].pc = "sending"
  /\ tasks[t].id \notin Unresponsive
  /\ SendBlockReturn(t)

\* the steps in which goroutine t waits for the mutex
LiveAcquire(t) ==
  \/ HealthCheckLock(t)
  \/ SyncRLock(t)
  \/ AddPeerLocked(t)
  \/ MarkInactive(t)

\* the other steps of goroutine t
LiveRun(t) ==
  \/ HealthCheckProbe(t)
  \/ LiveHealthCheckAnswer(t)
  \/ HealthCheckUnlock(t)
  \/ SyncPull(t)
  \/ LiveSyncAnswer(t)
  \/ SyncRUnlock(t)
  \/ LiveSendBlockReturn(t)
  \/ Return(t)

NextLive ==
  \/ \E t \in TaskIds, peerID \in PeerIds : BeginAddPeer(t, peerID)
  \/ \E t \in TaskIds, op \in {"HealthCheck", "SyncWithPeers"} :
       BeginPeerTask(t, op)
  \/ CallBroadcastBlock
  \/ \E t \in TaskIds : LiveAcquire(t)
  \/ \E t \in TaskIds : LiveRun(t)

\* a goroutine that can run does run, an answer on its way arrives, and a
\* goroutine that waits for the mutex gets it if the mutex is free again and
\* again
LiveFairness ==
  \A t \in TaskIds : WF_vars(LiveRun(t)) /\ SF_vars(LiveAcquire(t))

SpecLive == Init /\ [][NextLive]_vars /\ LiveFairness

(***************************************************************************)
(* The adoption of a pulled chain, statement by statement.  SyncWithPeers  *)
(* holds the read lock of P2PNetwork only, which excludes neither a second *)
(* SyncWithPeers nor any handler: Blockchain has no lock, and the handlers *)
(* read bc.Chain and bc.Contracts directly.                                *)
(***************************************************************************)
\* a slot of make([]*Block, n) that is not filled yet
NilBlock == [nil |-> TRUE]

\* the slots of ch that are not filled
UnsetSlots(ch) == {i \in 1..Len(ch) : ch[i] = NilBlock}

\* what the peers of SpecAdopt answer to a pull
AdoptAnswers ==
  {TransportError}
  \cup {Pulled(PeerChain(<<GenesisBlock(4)>>, n)) : n \in 2..MaxAdoptChain}

\* SyncWithPeers: http.Get returns; the chain is tested against the length
\* of the local one, read now
AdoptAnswer(t) ==
  /\ tasks[t].pc = "pulling"
  /\ \E answer \in AdoptAnswers :
       tasks' = [tasks EXCEPT ![t] =
                   IF Adopts(chain, answer)
                     THEN [pulled |-> answer.chain, slot |-> 1, pc |-> "make",
                           cur |-> ""] @@ @
                     ELSE [pc |-> "loop", cur |-> ""] @@ @]
  /\ UNCHANGED <<chain, contracts, peers, last>>

\* SyncWithPeers: p2p.Blockchain.Chain = make([]*Block, len(chain))
AdoptMake(t) ==
  /\ tasks[t].pc = "make"
  /\ chain' = [i \in 1..Len(tasks[t].pulled) |-> NilBlock]
  /\ tasks' = [tasks EXCEPT ![t].pc = "fill"]
  /\ UNCHANGED <<contracts, peers, last>>

\* SyncWithPeers: p2p.Blockchain.Chain[i] = &blockCopy, one slot; a slice
\* another run has put in place meanwhile may be shorter, and the index
\* panics
AdoptFill(t) ==
  /\ tasks[t].pc = "fill"
  /\ IF tasks[t].slot > Len(tasks[t].pulled)
       THEN /\ tasks' = [tasks EXCEPT ![t].pc = "rebuild"]
            /\ UNCHANGED chain
       ELSE IF tasks[t].slot > Len(chain)
         THEN /\ tasks' = [tasks EXCEPT ![t].pc = "done", ![t].lock = "",
                                        ![t].err = "IndexPanic"]
              /\ UNCHANGED chain
         ELSE /\ chain' = [chain EXCEPT ![tasks[t].slot] =
                                          tasks[t].pulled[tasks[t].slot]]
              /\ tasks' = [tasks EXCEPT ![t].slot = @ + 1]
  /\ UNCHANGED <<contracts, peers, last>>

\* SyncWithPeers: rebuildContractsFromChain; it reads the type of every
\* block of the chain, and an unset slot is a nil pointer
AdoptRebuild(t) ==
  /\ tasks[t].pc = "rebuild"
  /\ IF UnsetSlots(chain) # {}
       THEN /\ contracts' = [k \in {} |-> k]
            /\ tasks' = [tasks EXCEPT ![t].pc = "done", ![t].lock = "",
                                      ![t].err = "NilBlockPanic"]
       ELSE /\ contracts' = rebuildContractsFromChain(chain)
            /\ tasks' = [tasks EXCEPT ![t].pc = "loop",
                                      ![t].adopted = @ + 1]
  /\ UNCHANGED <<chain, peers, last>>

\* a request for the getBlocks route arrives
BeginGetBlocks(t) ==
  /\ tasks[t].pc = "idle"
  /\ tasks' = [tasks EXCEPT ![t] =
                 [pc |-> "read", lock |-> "", op |-> "getBlocks", id |-> "",
                  err |-> "", adopted |-> 0]]
  /\ UNCHANGED <<chain, contracts, peers, last>>

\* getBlocks: it reads len(bc.Chain), len(bc.Contracts), IsChainValid and
\* the tail; seen is what it read: the counts, whether a slot was unset, and
\* whether the chain was one just put in place, the registry not rebuilt yet
GetBlocksRead(t) ==
  /\ tasks[t].pc = "read"
  /\ tasks' = [tasks EXCEPT ![t] =
                 [seen |-> [blocks_count |-> Len(chain),
                            contracts_count |-> Cardinality(DOMAIN contracts),
                            unset |-> UnsetSlots(chain) # {},
                            replaced |-> \E u \in TaskIds :
                                           tasks[u].pc = "rebuild"],
                  pc |-> "done",
                  err |-> IF UnsetSlots(chain) # {} THEN "NilBlockPanic"
                                                    ELSE ""] @@ @]
  /\ UNCHANGED <<chain, contracts, peers, last>>

(***************************************************************************)
(* SpecAdopt: a node that holds a contract and a peer, on which two        *)
(* goroutines run SyncWithPeers and getBlocks at the same time.            *)
(***************************************************************************)
NextAdopt ==
  \/ /\ Running = {}
     /\ "c1" \notin DOMAIN contracts
     /\ Len(chain) = 1
     /\ CallAddContract(PathInputs)
  \/ Running = {} /\ CallAddPeer
  \/ \E t \in TaskIds : BeginPeerTask(t, "SyncWithPeers")
  \/ \E t \in TaskIds : BeginGetBlocks(t)
  \/ \E t \in TaskIds : SyncRLock(t)
  \/ \E t \in TaskIds : SyncPull(t)
  \/ \E t \in TaskIds : AdoptAnswer(t)
  \/ \E t \in TaskIds : AdoptMake(t)
  \/ \E t \in TaskIds : AdoptFill(t)
  \/ \E t \in TaskIds : AdoptRebuild(t)
  \/ \E t \in TaskIds : SyncRUnlock(t)
  \/ \E t \in TaskIds : GetBlocksRead(t)
  \/ \E t \in TaskIds : Return(t)

SpecAdopt == Init /\ [][NextAdopt]_vars

(***************************************************************************)
(* SpecTwo: two nodes that run this program and are each other's active    *)
(* peer.  chain and contracts are those of the first node; the second node *)
(* is its peer p1, and peers["p1"].chain is the chain that node holds.     *)
(* Neither node appends a block, both run SyncWithPeers again and again,   *)
(* and every pull returns the chain the other node holds.                  *)
(***************************************************************************)
\* the clock readings at which the nodes were started: NewBlockchain stamps
\* the genesis block with time.Now()
StartTimes == {2, 4, 6}

\* the chains a node may hold when the synchronisation begins
StartChains ==
  {PeerChain(<<GenesisBlock(g)>>, n) : g \in StartTimes, n \in 1..MaxTwoChain}

InitTwo ==
  /\ chain \in StartChains
  /\ contracts = rebuildContractsFromChain(chain)
  /\ \E ch \in StartChains :
       peers = [p \in {"p1"} |->
                  [id |-> p, address |-> "host", port |-> "8080",
                   lastSeen |-> 2, active |-> TRUE, chain |-> ch]]
  /\ last = Result("NewBlockchain", "", "", 0)
  /\ tasks = [t \in TaskIds |-> Idle]

\* the first node runs SyncWithPeers: the pull returns the chain of p1
SyncFromPeer ==
  /\ SyncWithPeers(<<"p1">>, [p \in {"p1"} |-> Pulled(peers[p].chain)])
  /\ UNCHANGED tasks

\* the node p1 runs SyncWithPeers: the pull returns the chain of the first
\* node
SyncAtPeer ==
  /\ peers' = [peers EXCEPT !["p1"].chain = SyncStep(@, Pulled(chain))]
  /\ UNCHANGED <<chain, contracts, last, tasks>>

NextTwo ==
  \/ SyncFromPeer
  \/ SyncAtPeer

\* both nodes run their periodic synchronisation for ever
TwoFairness == WF_vars(SyncFromPeer) /\ WF_vars(SyncAtPeer)

SpecTwo == InitTwo /\ [][NextTwo]_vars /\ TwoFairness

(***************************************************************************)
(* The handlers of main.go that append a block, each in the goroutine of   *)
(* its request: the call of the operation, then, in createContract and     *)
(* validateContract only, the read of the tail of the chain that is handed *)
(* to go p2pNetwork.BroadcastBlock.  tasks[t].appended is the block the    *)
(* operation appended, tasks[t].handed the block handed to BroadcastBlock. *)
(* The node of SpecHandlers has no peers: the broadcast delivers nothing.  *)
(***************************************************************************)
\* a request arrives for the handler op with the arguments args
BeginHandler(t, op, id, args) ==
  /\ tasks[t].pc = "idle"
  /\ tasks' = [tasks EXCEPT ![t] =
                 [pc |-> "call", lock |-> "", op |-> op, id |-> id,
                  err |-> "", adopted |-> 0, args |-> args,
                  appended |-> NoBlock, handed |-> NoBlock]]
  /\ UNCHANGED <<chain, contracts, peers, last>>

\* the requests the handlers are given
HandlerRequests ==
  {<<"createContract", id, [input |-> ValidInput(id)]>> : id \in ContractIds}
  \cup {<<"validateContract", "c1", [approved |-> a]>> : a \in Booleans}
  \cup {<<"validateContractStep", "c1", [stepNumber |-> k, approved |-> a]>> :
          k \in {1, 2}, a \in Booleans}
  \cup {<<"addAuditObservation", "c1", [role |-> RoleComptroller]>>}

\* the operation the handler of goroutine t calls
HandlerOperation(t) ==
  \E now \in Clock :
    CASE tasks[t].op = "createContract" ->
           AddContract(tasks[t].args.input, "", now)
      [] tasks[t].op = "validateContract" ->
           ValidateContract(tasks[t].id, "n1", tasks[t].args.approved, "ok",
                            now)
      [] tasks[t].op = "validateContractStep" ->
           ValidateStep(tasks[t].id, tasks[t].args.stepNumber, "v1", "n1",
                        GetWorkflowSteps[tasks[t].args.stepNumber].role,
                        tasks[t].args.approved, "ok", now)
      [] tasks[t].op = "addAuditObservation" ->
           AddAuditObservation(tasks[t].id, "v1", tasks[t].args.role, "ok",
                               now)

\* the handlers that go on to broadcast after a call without error
Broadcasts(op) == op \in {"createContract", "validateContract"}

\* the handler calls its operation; on an error, and in validateContractStep
\* and addAuditObservation in any case, it answers the request right away
HandlerCall(t) ==
  /\ tasks[t].pc = "call"
  /\ HandlerOperation(t)
  /\ tasks' = [tasks EXCEPT
       ![t].err = last'.err,
       ![t].appended = IF Len(chain') > Len(chain)
                         THEN chain'[Len(chain')] ELSE NoBlock,
       ![t].pc = IF last'.err = "" /\ Broadcasts(tasks[t].op)
                   THEN "tail" ELSE "done"]

\* createContract, validateContract: lastBlock := *bc.Chain[len(bc.Chain)-1],
\* read now, and go p2pNetwork.BroadcastBlock(lastBlock)
HandlerBroadcast(t) ==
  /\ tasks[t].pc = "tail"
  /\ tasks' = [tasks EXCEPT ![t].handed = getLatestBlock(chain),
                            ![t].pc = "done"]
  /\ last' = Result("BroadcastBlock", "", "", 0)
  /\ UNCHANGED <<chain, contracts, peers>>

WithinHandlerBounds == Len(chain) + Cardinality(Running) < MaxHandlerChain

(***************************************************************************)
(* SpecHandlers: two requests at a time for the handlers that append.      *)
(***************************************************************************)
NextHandlers ==
  \/ \E t \in TaskIds, r \in HandlerRequests :
       WithinHandlerBounds /\ BeginHandler(t, r[1], r[2], r[3])
  \/ \E t \in TaskIds : HandlerCall(t)
  \/ \E t \in TaskIds : HandlerBroadcast(t)
  \/ \E t \in TaskIds : Return(t)

SpecHandlers == Init /\ [][NextHandlers]_vars

(***************************************************************************)
(* Spec: the sequential calls on one node, without synchronisation, with   *)
(* every input.                                                            *)
(***************************************************************************)
Next ==
  \/ CallAddContract(AllInputs) /\ WithinBounds(chain')
  \/ CallValidateStep(ContractIds, RolesTried) /\ WithinBounds(chain')
  \/ CallAddAuditObservation(ContractIds) /\ WithinBounds(chain')
  \/ CallValidateContract(ContractIds) /\ WithinBounds(chain')
  \/ CallReceiveBlock /\ WithinBounds(chain')

Spec == Init /\ [][Next]_vars

(***************************************************************************)
(* SpecPath: one contract, created once, taken through its whole workflow. *)
(***************************************************************************)
NextPath ==
  \/ /\ "c1" \notin DOMAIN contracts
     /\ CallAddContract(PathInputs) /\ WithinPathBounds(chain')
  \/ CallValidateStep({"c1"}, ApprovalRoles) /\ WithinPathBounds(chain')
  \/ CallValidateContract({"c1"}) /\ WithinPathBounds(chain')

SpecPath == Init /\ [][NextPath]_vars

(***************************************************************************)
(* SpecSync: a node with peers that creates contracts and synchronises.    *)
(***************************************************************************)
NextSync ==
  \/ CallAddContract(PathInputs) /\ WithinSyncBounds(chain')
  \/ CallValidateStep({"c1"}, RolesTried) /\ WithinSyncBounds(chain')
  \/ CallAddPeer
  \/ CallHealthCheck
  \/ CallSyncWithPeers

SpecSync == Init /\ [][NextSync]_vars

(***************************************************************************)
(* SpecCreate: contracts submitted complete, incomplete, without an id and *)
(* with the fields of a workflow under way, and their first validations.   *)
(***************************************************************************)
NextCreate ==
  \/ CallAddContract(CreateInputs) /\ WithinCreateBounds(chain')
  \/ CallValidateStep(ContractIds, RolesTried) /\ WithinCreateBounds(chain')

SpecCreate == Init /\ [][NextCreate]_vars

(***************************************************************************)
(* SpecAudit: the contract of SpecPath with observations by auditors, and  *)
(* by roles that are no auditors, at every point of its workflow.          *)
(***************************************************************************)
NextAudit ==
  \/ NextPath
  \/ CallAddAuditObservation({"c1"}) /\ WithinPathBounds(chain')

SpecAudit == Init /\ [][NextAudit]_vars

(***************************************************************************)
(* Properties.                                                             *)
(***************************************************************************)
\* the block at the end of the local chain
TailBlock == chain[Len(chain)]

\* C1: in every state reached by sequential AddContract, ValidateStep,
\* AddAuditObservation, ValidateContract and ReceiveBlock calls, every block
\* after the genesis block holds the hash of its predecessor as its previous
\* hash, holds the hash recomputed from its own fields, and has its position
\* in the chain as its index.
C1_ChainLinked ==
  \A i \in 2..Len(chain) :
    /\ chain[i].previous_hash = chain[i-1].hash
    /\ chain[i].hash = calculateHash(chain[i])
    /\ chain[i].index = i - 1

\* a creation block and, after it, a block appended by one of the other
\* four operations
C1_Witness ==
  /\ Len(chain) = 3
  /\ last.err = ""
  /\ last.op \in {"ValidateStep", "AddAuditObservation", "ValidateContract",
                  "ReceiveBlock"}
  /\ chain[2].type \in {"CONTRACT_CREATION"}
  /\ chain[2].data.contract_id = "c1"

\* C2: a ValidateStep call on a registered contract with a step number
\* other than the contract's current step returns the step mismatch error
\* and leaves the chain and every contract (current step, status,
\* validation steps, audit trail) as they were.  Stated per step of the
\* node: the step is such a refusal, or it is no ValidateStep call with a
\* step number other than the current step.
C2_StepMismatchNoEffect ==
  [][last'.op = "ValidateStep" =>
       \/ /\ last'.err = "StepMismatch"
          /\ chain' = chain
          /\ contracts' = contracts
       \/ \A id \in DOMAIN contracts, stepNumber \in StepNumbers,
             validatorID \in ValidatorIds, validatorName \in ValidatorNames,
             role \in RolesTried, approved \in Booleans,
             comments \in CommentTexts, now \in Clock :
            ~( /\ stepNumber # contracts[id].currentStep
               /\ ValidateStep(id, stepNumber, validatorID, validatorName,
                               role, approved, comments, now) )]_vars

\* a duplicate submission was refused: the contract is past its first step
C2_Witness ==
  /\ last.op = "ValidateStep"
  /\ last.err = "StepMismatch"
  /\ last.id \in DOMAIN contracts
  /\ contracts[last.id].currentStep = 2

\* C3: a ValidateStep call on a registered contract for its current step
\* with a role other than the template role of that step returns the role
\* mismatch error and leaves the chain and every contract as they were.
\* Stated per step of the node: the step is such a refusal, or it is no
\* ValidateStep call for the current step with a role other than the
\* template's.
C3_RoleMismatchNoEffect ==
  [][last'.op = "ValidateStep" =>
       \/ /\ last'.err = "RoleMismatch"
          /\ chain' = chain
          /\ contracts' = contracts
       \/ \A id \in DOMAIN contracts, stepNumber \in 1..Len(GetWorkflowSteps),
             validatorID \in ValidatorIds, validatorName \in ValidatorNames,
             role \in RolesTried, approved \in Booleans,
             comments \in CommentTexts, now \in Clock :
            ~( /\ stepNumber = contracts[id].currentStep
               /\ role # GetWorkflowSteps[stepNumber].role
               /\ ValidateStep(id, stepNumber, validatorID, validatorName,
                               role, approved, comments, now) )]_vars

\* a call for the current step, the second one, was refused for its role
C3_Witness ==
  /\ last.op = "ValidateStep"
  /\ last.err = "RoleMismatch"
  /\ last.id \in DOMAIN contracts
  /\ contracts[last.id].currentStep = 2

\* the number of validation steps of a contract that are approved
ApprovedCount(c) ==
  Cardinality({k \in 1..Len(c.validationSteps) :
                 c.validationSteps[k].status = ValidationApproved})

\* the status after k approvals is PathStatus[k + 1]
PathStatus ==
  <<StatusDraft, StatusTechnicalReview, StatusLegalReview,
    StatusContractsReview, StatusAdminReview, StatusBudgetReview,
    StatusAuthorizedForPublication>>

\* C4: a freshly created contract is in Draft with no approved step, and the
\* approval of step k leaves the contract in the k-th status after Draft of
\* the path Draft, TechnicalReview, LegalReview, ContractsReview,
\* AdminReview, BudgetReview, AuthorizedForPublication, with k steps
\* approved; the sixth approval reaches AuthorizedForPublication with 6.
C4_ApprovalPath ==
  /\ (last.op = "AddContract" /\ last.err = "")
       => /\ contracts[last.id].status = PathStatus[1]
          /\ ApprovedCount(contracts[last.id]) = 0
  /\ (last.op = "ValidateStep" /\ last.err = "" /\ IsApproval(TailBlock))
       => /\ contracts[last.id].status = PathStatus[TailBlock.data.step + 1]
          /\ ApprovedCount(contracts[last.id]) = TailBlock.data.step

\* the six approvals in a row, right after the creation
C4_Witness ==
  /\ last.op = "ValidateStep"
  /\ last.err = ""
  /\ Len(chain) = 8
  /\ \A i \in 3..8 : IsApproval(chain[i]) /\ chain[i].data.step = i - 2
  /\ contracts[last.id].status = StatusAuthorizedForPublication
  /\ ApprovedCount(contracts[last.id]) = 6

\* C5: once a rejecting ValidateStep call has set a contract's status to
\* Rejected, every later ValidateStep call on that contract fails and
\* changes nothing.
C5_RejectedAbsorbing ==
  [][\A id \in DOMAIN contracts :
       ( /\ contracts[id].status = StatusRejected
         /\ contracts[id].validationSteps[contracts[id].currentStep].status
              = ValidationRejected
         /\ last'.op = "ValidateStep"
         /\ last'.id = id )
       => /\ last'.err # ""
          /\ contracts' = contracts
          /\ chain' = chain]_vars

\* C6: once a contract's status is AuthorizedForPublication, no later
\* operation changes its status or its validation steps.
C6_AuthorizedTerminal ==
  [][\A id \in DOMAIN contracts :
       contracts[id].status = StatusAuthorizedForPublication
       => /\ id \in DOMAIN contracts'
          /\ contracts'[id].status = StatusAuthorizedForPublication
          /\ contracts'[id].validationSteps
               = contracts[id].validationSteps]_vars

\* C7: once a validation step is Approved or Rejected, no later operation
\* changes its status, validator, comments or timestamp.
C7_StepDecidedOnce ==
  [][\A id \in DOMAIN contracts :
       \A k \in 1..Len(contracts[id].validationSteps) :
         contracts[id].validationSteps[k].status
           \in {ValidationApproved, ValidationRejected}
         => /\ id \in DOMAIN contracts'
            /\ contracts'[id].validationSteps[k]
                 = contracts[id].validationSteps[k]]_vars

\* the actions of the audit entries a step of the node appends to the trail
\* of contract id
AppendedActions(id) ==
  [i \in 1..(Len(contracts'[id].auditTrail) - Len(contracts[id].auditTrail))
     |-> contracts'[id].auditTrail[Len(contracts[id].auditTrail) + i].action]

\* the step of the node is a successful ValidateStep call that approves the
\* current step of contract id
ApprovesCurrentStep(id) ==
  /\ last'.op = "ValidateStep"
  /\ last'.id = id
  /\ last'.err = ""
  /\ contracts'[id].validationSteps[contracts[id].currentStep].status
       = ValidationApproved

\* the step of the node appends exactly one block, of type VALIDATION
AppendsOneValidationBlock ==
  /\ Len(chain') = Len(chain) + 1
  /\ SubSeq(chain', 1, Len(chain)) = chain
  /\ chain'[Len(chain')].type = "VALIDATION"

\* C8 as claimed: every successful approving ValidateStep call, for each of
\* the steps 1 to 6, appends exactly one audit entry and exactly one
\* VALIDATION block.
C8_OneEntryPerApproval ==
  [][\A id \in DOMAIN contracts :
       ApprovesCurrentStep(id)
       => /\ AppendsOneValidationBlock
          /\ SubSeq(contracts'[id].auditTrail, 1,
                    Len(contracts[id].auditTrail)) = contracts[id].auditTrail
          /\ Len(AppendedActions(id)) = 1]_vars

\* C8 as amended: every successful approving ValidateStep call appends
\* exactly one VALIDATION block; for the steps 1 to 5 it appends exactly one
\* audit entry, STEP_APPROVED, and for step 6 exactly two, STEP_APPROVED and
\* then WORKFLOW_COMPLETED.
C8_EntriesPerApproval ==
  [][\A id \in DOMAIN contracts :
       ApprovesCurrentStep(id)
       => /\ AppendsOneValidationBlock
          /\ SubSeq(contracts'[id].auditTrail, 1,
                    Len(contracts[id].auditTrail)) = contracts[id].auditTrail
          /\ AppendedActions(id) =
               IF contracts[id].currentStep < 6
                 THEN <<"STEP_APPROVED">>
                 ELSE <<"STEP_APPROVED", "WORKFLOW_COMPLETED">>]_vars

\* the sixth step was approved
C8_Witness ==
  /\ last.op = "ValidateStep"
  /\ last.err = ""
  /\ IsApproval(TailBlock)
  /\ TailBlock.data.step = 6
  /\ contracts[last.id].auditTrail[Len(contracts[last.id].auditTrail)].action
       = "WORKFLOW_COMPLETED"

\* every block after the first holds the hash of its predecessor
Linked(ch) == \A i \in 2..Len(ch) : ch[i].previous_hash = ch[i-1].hash

\* a pulled chain that is strictly longer than the local one and linked
LongerAndLinked(answer) ==
  /\ ~answer.err
  /\ Len(answer.chain) > Len(chain)
  /\ Linked(answer.chain)

\* C9: SyncWithPeers replaces the local chain only by a pulled chain that is
\* strictly longer than the local chain and whose adjacent blocks are all
\* linked, and then the local chain is that chain block for block; when no
\* pulled chain is longer and linked, the local chain stays as it was.
C9_AdoptOnlyLongerLinked ==
  [][last'.op = "SyncWithPeers" =>
       \A order \in ActiveOrders, answers \in [GetActivePeers -> PeerAnswers] :
         SyncWithPeers(order, answers)
         => /\ chain' # chain
                 => \E p \in GetActivePeers :
                      /\ LongerAndLinked(answers[p])
                      /\ chain' = answers[p].chain
            /\ (\A p \in GetActivePeers : ~LongerAndLinked(answers[p]))
                 => chain' = chain]_vars

\* a synchronisation adopted a peer's chain
C9_Witness ==
  /\ last.op = "SyncWithPeers"
  /\ last.adopted > 0
  /\ Len(chain) = MaxPeerChain
  /\ Linked(chain)

\* C10: SyncWithPeers never adopts a chain that holds a block whose stored
\* hash differs from the hash recomputed from the block's fields.
C10_AdoptedChainRecomputes ==
  (last.op = "SyncWithPeers" /\ last.adopted > 0)
    => \A i \in 1..Len(chain) : IsValid(chain[i])

\* the contract ids recorded by the CONTRACT_CREATION blocks of a chain
CreationIds(ch) ==
  {ch[i].data.contract_id :
     i \in {k \in 1..Len(ch) : /\ ch[k].type = "CONTRACT_CREATION"
                               /\ "contract_id" \in DOMAIN ch[k].data}}

\* C11: after SyncWithPeers adopted a peer chain, the registry holds one
\* contract, under its own id, for each CONTRACT_CREATION block of the local
\* chain, and no other contract.
C11_RegistryRebuilt ==
  (last.op = "SyncWithPeers" /\ last.adopted > 0)
    => /\ DOMAIN contracts = CreationIds(chain)
       /\ \A id \in DOMAIN contracts : contracts[id].id = id

\* C12: when a ReceiveBlock call succeeded and appended a block, the next
\* ReceiveBlock call with the identical block returns without error and
\* leaves the chain as it is.
C12_DuplicateReceiptNoOp ==
  [][(last.op = "ReceiveBlock" /\ last.err = "" /\ last'.op = "ReceiveBlock")
       => \A block \in Redelivered, now \in Clock :
            ReceiveBlock(block, now) => (last'.err = "" /\ chain' = chain)]_vars

\* C13: ReceiveBlock refuses with the invalid block error, and leaves the
\* chain as it is, every block whose stored hash is not the hash recomputed
\* from its index, timestamp, data, previous hash, nonce and type.
C13_RecomputedHashChecked ==
  [][last'.op = "ReceiveBlock" =>
       \/ last'.err = "InvalidBlock" /\ chain' = chain
       \/ \A block \in ReceivedBlocks, now \in Clock :
            ~(~IsValid(block) /\ ReceiveBlock(block, now))]_vars

\* a received block has an empty hash, an unset timestamp, or a previous
\* hash other than the hash of the tail of the local chain
Malformed(block) ==
  \/ block.hash = NoHash
  \/ IsZero(block.timestamp)
  \/ block.previous_hash # TailBlock.hash

\* C14: ReceiveBlock called with a block whose hash is empty, whose timestamp
\* is unset or whose previous hash is not the hash of the tail of the local
\* chain returns an error and leaves the chain and the registry as they were.
C14_MalformedBlockRefused ==
  [][last'.op = "ReceiveBlock" =>
       \/ last'.err # "" /\ chain' = chain /\ contracts' = contracts
       \/ \A block \in ReceivedBlocks, now \in Clock :
            ~(Malformed(block) /\ ReceiveBlock(block, now))]_vars

\* a block was refused after another one had been accepted: the refused
\* block did not link to the new tail, had no hash or had no timestamp
C14_Witness ==
  /\ last.op = "ReceiveBlock"
  /\ last.err = "InvalidBlock"
  /\ Len(chain) = 2
  /\ Redelivered # {}

\* C15: when ReceiveBlock accepts a CONTRACT_CREATION block the node did not
\* hold, the registry afterwards holds the contract the payload describes.
C15_ReceivedContractRegistered ==
  [][last'.op = "ReceiveBlock" /\ last'.err = "" =>
       \A block \in ReceivedBlocks, now \in Clock :
         ( /\ block.type = "CONTRACT_CREATION"
           /\ ~HasBlock(chain, block.hash)
           /\ ReceiveBlock(block, now) )
         => /\ block.data.contract_id \in DOMAIN contracts'
            /\ contracts'[block.data.contract_id].entityCode
                 = block.data.entity_code
            /\ contracts'[block.data.contract_id].amount
                 = block.data.amount]_vars

\* C16: in every state of a node the registry is a function of the chain:
\* its contract ids are the contract ids that the CONTRACT_CREATION blocks
\* of the local chain record.
C16_RegistryFunctionOfChain == DOMAIN contracts = CreationIds(chain)

\* C17: no operation removes or resets a registered contract: its id stays
\* in the registry and its earlier audit trail is a prefix of the later one.
C17_ContractNeverRemoved ==
  [][\A id \in DOMAIN contracts :
       /\ id \in DOMAIN contracts'
       /\ Len(contracts'[id].auditTrail) >= Len(contracts[id].auditTrail)
       /\ SubSeq(contracts'[id].auditTrail, 1,
                 Len(contracts[id].auditTrail)) = contracts[id].auditTrail]_vars

\* the registry after the ValidateStep call of goroutine record a ran alone,
\* from its first statement to its last, on the registry cs
AfterValidateStep(cs, a, now) ==
  IF ValidateStepErr(cs, a.id, a.stepNumber, a.role) # ""
    THEN cs
    ELSE [cs EXCEPT ![a.id] =
            DecideStep(@, a.stepNumber, a.validatorID, a.validatorName,
                       a.role, a.approved, a.comments, now)]

\* two goroutines have both finished a ValidateStep call on the same
\* contract, and both calls started on the same registry
RacedValidateSteps(t, u) ==
  /\ t # u
  /\ tasks[t].pc = "done" /\ tasks[u].pc = "done"
  /\ tasks[t].op = "ValidateStep" /\ tasks[u].op = "ValidateStep"
  /\ tasks[t].id = tasks[u].id
  /\ tasks[t].entry = tasks[u].entry
  /\ tasks[t].id \in DOMAIN tasks[t].entry

\* C18: when two ValidateStep calls on the same contract run at the same
\* time, the contract they leave is the contract that running the two calls
\* one after the other, in one of the two orders, leaves.
C18_StepCallsSerialized ==
  \A t, u \in TaskIds :
    RacedValidateSteps(t, u)
    => \E now \in Clock :
         \/ contracts[tasks[t].id] =
              AfterValidateStep(
                AfterValidateStep(tasks[t].entry, tasks[t], now),
                tasks[u], now)[tasks[t].id]
         \/ contracts[tasks[t].id] =
              AfterValidateStep(
                AfterValidateStep(tasks[t].entry, tasks[u], now),
                tasks[t], now)[tasks[t].id]

\* C19: however the appends of concurrent handlers interleave, no two blocks
\* of the chain share an index or a previous hash, and every block after the
\* first holds the hash of its predecessor.
C19_ConcurrentAppendsLinked ==
  /\ Linked(chain)
  /\ \A i, j \in 1..Len(chain) :
       i < j => /\ chain[i].index # chain[j].index
                /\ chain[i].previous_hash # chain[j].previous_hash

\* C20: no goroutine holds the mutex exclusively while one of its outbound
\* network calls, a health probe or a chain pull, is in flight.
C20_NoExclusiveLockInFlight ==
  \A t \in TaskIds :
    tasks[t].pc \in {"probing", "pulling"} => tasks[t].lock # "W"

\* a submitted contract that lacks a required field: an empty entityCode,
\* entityName, contractType, description or createdBy, or an amount that is
\* not positive
LacksRequiredField(input) ==
  \/ input.entityCode = ""
  \/ input.entityName = ""
  \/ input.contractType = ""
  \/ input.description = ""
  \/ input.createdBy = ""
  \/ input.amount <= 0

\* C23: AddContract fails with a validation error and leaves the chain and
\* the registry as they were whenever the submitted contract has an empty
\* entityCode, entityName, contractType, description or createdBy, or an
\* amount that is not positive.  Stated per step of the node: the step is
\* such a refusal, or it is no AddContract call with such a contract.
C23_IncompleteContractRefused ==
  [][last'.op = "AddContract" =>
       \/ /\ last'.err = "ValidationError"
          /\ chain' = chain
          /\ contracts' = contracts
       \/ \A input \in AllInputs, uuid \in ContractIds \cup {""},
             now \in Clock :
            ~( /\ LacksRequiredField(input)
               /\ AddContract(input, uuid, now) )]_vars

\* the workflow fields AddContract leaves in the contract c: status Draft,
\* the first step current, the six steps pending with the template's roles
FreshWorkflow(c) ==
  /\ c.status = StatusDraft
  /\ c.currentStep = 1
  /\ Len(c.validationSteps) = 6
  /\ \A i \in 1..6 :
       /\ c.validationSteps[i].status = ValidationPending
       /\ c.validationSteps[i].role = GetWorkflowSteps[i].role

\* the step appended exactly one block, a CONTRACT_CREATION block of id
AppendsOneCreationBlock(id) ==
  /\ Len(chain') = Len(chain) + 1
  /\ SubSeq(chain', 1, Len(chain)) = chain
  /\ chain'[Len(chain')].type = "CONTRACT_CREATION"
  /\ chain'[Len(chain')].data.contract_id = id

\* C24 as stated: a successful AddContract leaves the contract registered
\* with status Draft, currentStep 1, six Pending steps in the template's role
\* order and an audit trail holding one WORKFLOW_INITIALIZED entry, and
\* exactly one new CONTRACT_CREATION block at the tail of the chain.
C24_CreatedContractFresh ==
  [][last'.op = "AddContract" /\ last'.err = "" /\ chain' # chain =>
       /\ last'.id \in DOMAIN contracts'
       /\ FreshWorkflow(contracts'[last'.id])
       /\ Len(contracts'[last'.id].auditTrail) = 1
       /\ contracts'[last'.id].auditTrail[1].action = "WORKFLOW_INITIALIZED"
       /\ AppendsOneCreationBlock(last'.id)]_vars

\* C24 amended: a successful AddContract leaves the contract registered with
\* status Draft, currentStep 1 and six Pending steps in the template's role
\* order, whatever workflow fields were submitted; its audit trail is the
\* submitted trail followed by one WORKFLOW_INITIALIZED entry; the chain has
\* exactly one new CONTRACT_CREATION block at its tail.
C24_CreatedContractInitialized ==
  [][last'.op = "AddContract" /\ last'.err = "" =>
       \A input \in CreateInputs, uuid \in ContractIds \cup {""},
          now \in Clock :
         AddContract(input, uuid, now) =>
           /\ last'.id \in DOMAIN contracts'
           /\ FreshWorkflow(contracts'[last'.id])
           /\ Len(contracts'[last'.id].auditTrail)
                = Len(input.auditTrail) + 1
           /\ SubSeq(contracts'[last'.id].auditTrail, 1, Len(input.auditTrail))
                = input.auditTrail
           /\ contracts'[last'.id].auditTrail[Len(input.auditTrail) + 1].action
                = "WORKFLOW_INITIALIZED"
           /\ AppendsOneCreationBlock(last'.id)]_vars

\* a contract submitted with an audit entry and a workflow under way was
\* registered: its creation block is the tail of the chain
C24_Witness ==
  /\ last.op = "AddContract"
  /\ last.err = ""
  /\ last.id \in DOMAIN contracts
  /\ Len(contracts[last.id].auditTrail) = 2
  /\ contracts[last.id].auditTrail[1].action = "STEP_APPROVED"
  /\ contracts[last.id].currentStep = 1
  /\ TailBlock.type = "CONTRACT_CREATION"

\* C25: AddAuditObservation called for a registered contract with a role
\* other than Comptroller, Prosecutor and Citizen fails with the
\* unauthorized-role error and leaves the contract's audit trail and the
\* chain as they were.  Stated per step of the node: the step is such a
\* refusal, or it is no AddAuditObservation call with such a role.
C25_NonAuditorRefused ==
  [][last'.op = "AddAuditObservation" =>
       \/ /\ last'.err = "UnauthorizedRole"
          /\ chain' = chain
          /\ contracts' = contracts
       \/ \A id \in DOMAIN contracts, auditorID \in ValidatorIds,
             role \in Roles \ {RoleComptroller, RoleProsecutor, RoleCitizen},
             observation \in CommentTexts, now \in Clock :
            ~AddAuditObservation(id, auditorID, role, observation, now)]_vars

\* an observation on a registered contract was refused for its role
C25_Witness ==
  /\ last.op = "AddAuditObservation"
  /\ last.err = "UnauthorizedRole"
  /\ last.id \in DOMAIN contracts
  /\ Len(contracts[last.id].auditTrail) >= 1

\* C26: a successful AddAuditObservation, in whatever workflow state the
\* contract is, leaves the contract's status, currentStep and validationSteps
\* as they were, appends exactly one AUDIT_OBSERVATION entry to its audit
\* trail and exactly one AUDIT_OBSERVATION block to the chain.
C26_ObservationOnlyRecorded ==
  [][last'.op = "AddAuditObservation" /\ last'.err = "" =>
       /\ last'.id \in DOMAIN contracts
       /\ DOMAIN contracts' = DOMAIN contracts
       /\ contracts'[last'.id].status = contracts[last'.id].status
       /\ contracts'[last'.id].currentStep = contracts[last'.id].currentStep
       /\ contracts'[last'.id].validationSteps
            = contracts[last'.id].validationSteps
       /\ Len(contracts'[last'.id].auditTrail)
            = Len(contracts[last'.id].auditTrail) + 1
       /\ SubSeq(contracts'[last'.id].auditTrail, 1,
                 Len(contracts[last'.id].auditTrail))
            = contracts[last'.id].auditTrail
       /\ contracts'[last'.id].auditTrail[
            Len(contracts'[last'.id].auditTrail)].action = "AUDIT_OBSERVATION"
       /\ Len(chain') = Len(chain) + 1
       /\ SubSeq(chain', 1, Len(chain)) = chain
       /\ chain'[Len(chain')].type = "AUDIT_OBSERVATION"
       /\ chain'[Len(chain')].data.contract_id = last'.id]_vars

\* an observation was recorded on a contract under legal review, after two
\* approvals
C26_Witness ==
  /\ last.op = "AddAuditObservation"
  /\ last.err = ""
  /\ last.id \in DOMAIN contracts
  /\ contracts[last.id].status = StatusLegalReview
  /\ contracts[last.id].currentStep = 3
  /\ TailBlock.type = "AUDIT_OBSERVATION"

\* C27: the status of a registered contract changes only through
\* ValidateStep: no step of another operation leaves a contract that stays
\* registered with another status.
C27_StatusOnlyByValidateStep ==
  [][\A id \in DOMAIN contracts \cap DOMAIN contracts' :
       contracts'[id].status # contracts[id].status
         => last'.op = "ValidateStep"]_vars

\* the chain with the contents of one block before the tail replaced and the
\* stored hash of that block left as it was
MutatedChains ==
  {[chain EXCEPT ![i].data = [type |-> "TAMPERED"]] :
     i \in 1..Len(chain) - 1}

\* every block of ch, the first included, stores the hash recomputed from its
\* fields
AllRecompute(ch) == \A i \in 1..Len(ch) : IsValid(ch[i])

\* C22: IsChainValid is true exactly when every adjacent pair of blocks is
\* linked and the stored hash of every block, the genesis block included,
\* matches its recomputation; so it is false of a chain in which the contents
\* of a block before the tail were altered and its stored hash was not.
C22_ChainValidityComplete ==
  /\ IsChainValid(chain) <=> (Linked(chain) /\ AllRecompute(chain))
  /\ \A m \in MutatedChains :
       /\ IsChainValid(m) <=> (Linked(m) /\ AllRecompute(m))
       /\ ~IsChainValid(m)

\* C30: when the pull of a peer's chain fails with a transport error during
\* SyncWithPeers, that peer is marked inactive, and the answers of the
\* remaining active peers are still taken: the chain the run leaves is the
\* one the answers of all the active peers lead to.
C30_FailedPullMarksInactive ==
  [][last'.op = "SyncWithPeers" =>
       \A order \in ActiveOrders, answers \in [GetActivePeers -> PeerAnswers] :
         SyncWithPeers(order, answers) =>
           /\ chain' = SyncFold(chain, order, answers)
           /\ \A p \in GetActivePeers :
                answers[p].err => ~peers'[p].active]_vars

\* the goroutines a step starts to deliver a block
Started == {t \in TaskIds : tasks[t].pc = "idle" /\ tasks'[t].pc = "sending"}

C29_ActiveOnlyByProbeOrAdd ==
  [][/\ last'.op = "HealthCheck" =>
          \A answers \in [DOMAIN peers -> Booleans], now \in Clock :
            HealthCheck(answers, now) =>
              /\ DOMAIN peers' = DOMAIN peers
              /\ \A p \in DOMAIN peers : peers'[p].active = answers[p]
     /\ \A p \in DOMAIN peers \cap DOMAIN peers' :
          ~peers[p].active /\ peers'[p].active =>
            \/ last'.op = "HealthCheck"
            \/ last'.op = "AddPeer" /\ last'.id = p]_vars

\* a HealthCheck run, all its probes made, left one peer active and one
\* inactive; no delivery is under way
C29_Witness ==
  /\ last.op = "HealthCheck"
  /\ \E p, q \in DOMAIN peers : peers[p].active /\ ~peers[q].active
  /\ \A t \in TaskIds : tasks[t].pc = "idle"

\* goroutine t delivers a block to a peer that never answers
DeliversToUnresponsive(t) ==
  /\ tasks[t].pc = "sending"
  /\ tasks[t].op = "sendBlockToPeer"
  /\ tasks[t].id \in Unresponsive

\* C21: a peer that never answers cannot stall the node: every SyncWithPeers
\* run, every HealthCheck run, every AddPeer call and every delivery of a
\* broadcast to a peer that answers, its markPeerInactive included, that has
\* begun eventually ends.
C21_UnresponsivePeerNoStall ==
  \A t \in TaskIds :
    (tasks[t].pc # "idle" /\ ~DeliversToUnresponsive(t))
      ~> (tasks[t].pc = "idle")

\* C31: for every registered contract, in every workflow state, the workflow
\* status read reports completedSteps equal to the number of steps whose
\* status is Approved, canAdvance true exactly when the status is neither
\* Rejected nor Completed, and nextRole equal to the role of the current
\* step, or empty when currentStep is past the last step.
C31_WorkflowStatusDerived ==
  \A id \in DOMAIN contracts :
    /\ GetContractWorkflowStatus(contracts, id).completedSteps
         = ApprovedCount(contracts[id])
    /\ GetContractWorkflowStatus(contracts, id).canAdvance
         = (contracts[id].status \notin {StatusRejected, StatusCompleted})
    /\ GetContractWorkflowStatus(contracts, id).nextRole
         = IF contracts[id].currentStep > Len(contracts[id].validationSteps)
             THEN ""
             ELSE GetWorkflowSteps[contracts[id].currentStep].role

\* the read of a contract rejected at its third step, after two approvals:
\* two completed steps, no advance, the legal commission next
C31_Witness ==
  /\ "c1" \in DOMAIN contracts
  /\ contracts["c1"].status = StatusRejected
  /\ contracts["c1"].currentStep = 3
  /\ GetContractWorkflowStatus(contracts, "c1").completedSteps = 2
  /\ ~GetContractWorkflowStatus(contracts, "c1").canAdvance
  /\ GetContractWorkflowStatus(contracts, "c1").nextRole = RoleLegalCommission

\* the chain holds the block of a ValidateStep call that approved step k of
\* contract id with the template role of that step
ApprovedByTemplateRole(id, k) ==
  \E i \in 1..Len(chain) :
    /\ IsApproval(chain[i])
    /\ chain[i].data.contract_id = id
    /\ chain[i].data.step = k
    /\ chain[i].data.role = GetWorkflowSteps[k].role

\* C32: in every state reached by sequential operations on one node, a
\* contract whose status is AuthorizedForPublication has all six validation
\* steps Approved, each step k was approved by a ValidateStep call that
\* carried the template role of step k, and no step of it was decided by a
\* call with another role.
C32_AuthorizedMeansAllApproved ==
  \A id \in DOMAIN contracts :
    contracts[id].status = StatusAuthorizedForPublication =>
      /\ Len(contracts[id].validationSteps) = 6
      /\ \A k \in 1..6 :
           /\ contracts[id].validationSteps[k].status = ValidationApproved
           /\ contracts[id].validationSteps[k].role = GetWorkflowSteps[k].role
           /\ ApprovedByTemplateRole(id, k)
      /\ \A i \in 1..Len(chain) :
           IsStepValidation(chain[i]) /\ chain[i].data.contract_id = id =>
             chain[i].data.role = GetWorkflowSteps[chain[i].data.step].role

\* a contract was authorized after one of its steps had been rejected and
\* then approved
C32_Witness ==
  /\ "c1" \in DOMAIN contracts
  /\ contracts["c1"].status = StatusAuthorizedForPublication
  /\ \E i \in 1..Len(chain) :
       IsStepValidation(chain[i]) /\ ~chain[i].data.approved
  /\ \A k \in 1..6 : ApprovedByTemplateRole("c1", k)

\* C33: in every state reached by sequential operations on one node, each
\* registered contract has its currentStep between 1 and 6, every validation
\* step numbered below currentStep Approved and every validation step
\* numbered above currentStep Pending.
C33_StepsAroundCurrent ==
  \A id \in DOMAIN contracts :
    /\ contracts[id].currentStep \in 1..6
    /\ Len(contracts[id].validationSteps) = 6
    /\ \A k \in 1..6 :
         /\ contracts[id].validationSteps[k].stepNumber = k
         /\ k < contracts[id].currentStep =>
              contracts[id].validationSteps[k].status = ValidationApproved
         /\ k > contracts[id].currentStep =>
              contracts[id].validationSteps[k].status = ValidationPending

\* a contract rejected at its fourth step: three steps approved below the
\* current one, two pending above it
C33_Witness ==
  /\ "c1" \in DOMAIN contracts
  /\ contracts["c1"].currentStep = 4
  /\ contracts["c1"].validationSteps[4].status = ValidationRejected
  /\ contracts["c1"].validationSteps[3].status = ValidationApproved
  /\ contracts["c1"].validationSteps[5].status = ValidationPending

\* C34: after ReceiveBlock succeeded for a block the node did not hold, the
\* block at the tail of the local chain is the received block itself: it has
\* its hash, previous hash, data, type and timestamp, and HasBlock finds its
\* hash.
C34_ReceivedBlockStored ==
  [][last'.op = "ReceiveBlock" /\ last'.err = "" /\ chain' # chain =>
       \A block \in ReceivedBlocks, now \in Clock :
         ReceiveBlock(block, now) =>
           /\ chain'[Len(chain')].hash = block.hash
           /\ chain'[Len(chain')].previous_hash = block.previous_hash
           /\ chain'[Len(chain')].data = block.data
           /\ chain'[Len(chain')].type = block.type
           /\ chain'[Len(chain')].timestamp = block.timestamp
           /\ HasBlock(chain', block.hash)]_vars

\* C35: the replacement of the chain and the rebuild of the registry in
\* SyncWithPeers are atomic for every other goroutine of the node: no read
\* that runs at the same time sees a chain with unset slots, or the new
\* chain with the registry not rebuilt yet, and no second SyncWithPeers run
\* meets an unset slot or a slice replaced under it.
C35_AdoptionAtomic ==
  \A t \in TaskIds :
    tasks[t].pc = "done" =>
      /\ tasks[t].err = ""
      /\ tasks[t].op = "getBlocks" =>
           ~tasks[t].seen.unset /\ ~tasks[t].seen.replaced

\* C36: two nodes that are each other's active peers, append no block and
\* run SyncWithPeers again and again without transport failures eventually
\* hold identical chains, whatever chains they started from.
C36_SyncConverges == <>(chain = peers["p1"].chain)

\* C37: every block appended by a local API operation, the creation of a
\* contract, the legacy validation, the validation of a workflow step or an
\* audit observation, is handed to BroadcastBlock by its handler, and the
\* block handed over is the one that operation appended, also when other
\* requests append at the same time.  BroadcastBlock is called by the
\* handlers only, before they answer: stated of every handler that has
\* answered.
C37_AppendedBlockBroadcast ==
  \A t \in TaskIds :
    (tasks[t].pc = "done" /\ "appended" \in DOMAIN tasks[t]
       /\ tasks[t].appended # NoBlock)
      => tasks[t].handed = tasks[t].appended
====
